---- MODULE Spec2Model ----
(***************************************************************************)
(* Model of src/src/velocity_monitoring.py (class VelocityMonitor): the    *)
(* per-customer ledger store `transaction_buffer`, the global lock, the    *)
(* lazy eviction pass, and the lock-free window queries.  Threads execute  *)
(* the methods step by step, one step per statement that touches shared    *)
(* state, so that every interleaving CPython allows is explored.  The      *)
(* scoring of assess_velocity_risk and of src/src/aml_compliance.py (class *)
(* AMLComplianceChecker) is modelled as functions over exact fractions,    *)
(* together with the loading of the configuration and the fields of        *)
(* transaction_data that are absent, None or not numbers.  The aggregation *)
(* of the two results follows section 4.4 of the specification.            *)
(***************************************************************************)
EXTENDS Integers, Sequences, FiniteSets, TLC

(***************************************************************************)
(* Bounds of the model.                                                    *)
(***************************************************************************)
\* total number of record_transaction calls explored
MaxRecords == 3

Threads == {"t1", "t2"}
\* the threads that also issue queries when threads run concurrently
Readers == {"t2"}
\* the one thread that runs when calls are made one after the other
SeqThreads == {"t1"}
Customers == {"A", "B"}
\* transaction_amount values offered to record_transaction
Amounts == {10}
SeqAmounts == {10, 30}
\* the values time.time() takes; the clock only moves forward through them
Instants == {0, 1, 604801}
SeqInstants == {0, 1, 301, 604801}
\* explicit current_time arguments offered to calculate_velocity_metrics
SeqQueryTimes == {60, 61, 3601, 86401}

(***************************************************************************)
(* Configuration (VelocityMonitor._load_config defaults, __init__).        *)
(***************************************************************************)
time_windows ==
    [minute_window |-> 60, hour_window |-> 3600,
     day_window |-> 86400, week_window |-> 604800]

WindowNames == DOMAIN time_windows

cleanup_interval == 300

\* current_time: Optional[float] = None
None == -1

\* max(self.time_windows.values())
max_window ==
    CHOOSE m \in {time_windows[w] : w \in WindowNames} :
        \A w \in WindowNames : time_windows[w] <= m

(***************************************************************************)
(* Arithmetic helpers.  Python's float division is modelled by exact       *)
(* fractions <<numerator, denominator>> in lowest terms.                   *)
(***************************************************************************)
RECURSIVE GCD(_, _)
GCD(a, b) == IF b = 0 THEN a ELSE GCD(b, a % b)

Frac(n, d) == LET g == GCD(n, d) IN IF g = 0 THEN <<0, 1>> ELSE <<n \div g, d \div g>>

Min2(a, b) == IF a <= b THEN a ELSE b
Max2(a, b) == IF a >= b THEN a ELSE b

RECURSIVE SumRange(_, _, _)
\* s[lo].v + ... + s[hi].v, by halves
SumRange(s, lo, hi) ==
    IF lo > hi THEN 0
    ELSE IF lo = hi THEN s[lo].v
    ELSE LET mid == (lo + hi) \div 2 IN SumRange(s, lo, mid) + SumRange(s, mid + 1, hi)

\* sum(window_amounts)
SumV(s) == SumRange(s, 1, Len(s))

\* max(window_amounts), max(window_transactions)
MaxV(s) == CHOOSE x \in {s[i].v : i \in 1 .. Len(s)} : \A i \in 1 .. Len(s) : s[i].v <= x

\* min(window_transactions)
MinV(s) == CHOOSE x \in {s[i].v : i \in 1 .. Len(s)} : \A i \in 1 .. Len(s) : x <= s[i].v

(***************************************************************************)
(* State.                                                                  *)
(*   clock               the value time.time() returns                     *)
(*   transaction_buffer  the defaultdict, as an insertion-ordered sequence *)
(*                       of [k |-> customer, v |-> buffer object]          *)
(*   heap                the buffer objects: three deques each             *)
(*   lock                holder of self._lock, or "free"                   *)
(*   last_cleanup        self._last_cleanup                                *)
(*   pc, loc             each thread's position and local variables        *)
(*   log                 history: the record calls in the order they took  *)
(*                       effect; log[i] is the call with id i              *)
(*   ledger0, calls      the scoring runs (SpecScore): the ledger of the   *)
(*                       assessed customer before the run, and the calls   *)
(*                       made on it with what each returned                *)
(***************************************************************************)
VARIABLES clock, transaction_buffer, heap, lock, last_cleanup, pc, loc, log,
          ledger0, calls

vars == <<clock, transaction_buffer, heap, lock, last_cleanup, pc, loc, log, ledger0, calls>>

monitor_vars == <<clock, transaction_buffer, heap, lock, last_cleanup, pc, loc, log>>

Objs == 1 .. (Cardinality(Customers) + 2 * Cardinality(Threads))

\* the value of the defaultdict's factory: three empty deques
EmptyBuffer == [transactions |-> <<>>, amounts |-> <<>>, timestamps |-> <<>>]

\* deque.append
DequeAppendLeft(d, x) == <<x>> \o d
DequeAppend(d, x) == Append(d, x)

\* dict operations on the insertion-ordered store
Has(d, c) == \E i \in 1 .. Len(d) : d[i].k = c
Get(d, c) == d[CHOOSE i \in 1 .. Len(d) : d[i].k = c].v
DictSet(d, c, o) ==
    IF Has(d, c) THEN [i \in 1 .. Len(d) |-> IF d[i].k = c THEN [k |-> c, v |-> o] ELSE d[i]]
    ELSE Append(d, [k |-> c, v |-> o])
DictKeep(d, c) == d
\* del d[c]
DictDel(d, c) == SelectSeq(d, LAMBDA e : e.k # c)
Keys(d) == [i \in 1 .. Len(d) |-> d[i].k]

\* locals of an idle thread
IdleLoc ==
    [op |-> "none", cust |-> "A", amt |-> 0, qarg |-> None, q |-> None, first |-> <<>>,
     now |-> 0, rid |-> 0,
     ref |-> 0, ckeys |-> <<>>, ccust |-> "A", cref |-> 0, ctime |-> 0, cutoff |-> 0,
     tcopy |-> <<>>, acopy |-> <<>>, snap |-> {}, res |-> <<>>, exc |-> FALSE]

\* objects some reference still reaches (CPython frees the others at once)
Refs(d, l) ==
    {d[i].v : i \in 1 .. Len(d)} \cup {l[t].ref : t \in Threads} \cup {l[t].cref : t \in Threads}

Collect(h, d, l) == [o \in Objs |-> IF o \in Refs(d, l) THEN h[o] ELSE EmptyBuffer]

FreshObj == CHOOSE o \in Objs : o \notin Refs(transaction_buffer, loc)

Init ==
    /\ clock = 0
    /\ transaction_buffer = <<>>
    /\ heap = [o \in Objs |-> EmptyBuffer]
    /\ lock = "free"
    /\ last_cleanup = 0
    /\ pc = [t \in Threads |-> "idle"]
    /\ loc = [t \in Threads |-> IdleLoc]
    /\ log = <<>>
    /\ ledger0 = <<>>
    /\ calls = <<>>

\* ids of the elements of a deque
Ids(d) == {d[i].id : i \in 1 .. Len(d)}

(***************************************************************************)
(* The clock.                                                              *)
(***************************************************************************)
Tick(instants) ==
    /\ \E x \in instants : x > clock /\ clock' = x
    /\ UNCHANGED <<ledger0, calls, transaction_buffer, heap, lock, last_cleanup, pc, loc, log>>

(***************************************************************************)
(* Calls.  A thread that is idle calls one of the public methods.          *)
(***************************************************************************)
\* record calls that have been made but have not yet taken the lock
Pending == Cardinality({u \in Threads : pc[u] = "rec_lock"})

CallRecord(t, c, a) ==
    /\ pc[t] = "idle"
    /\ Len(log) + Pending < MaxRecords
    /\ pc' = [pc EXCEPT ![t] = "rec_lock"]
    /\ loc' = [loc EXCEPT ![t] = [IdleLoc EXCEPT !.op = "record", !.cust = c, !.amt = a]]
    /\ UNCHANGED <<ledger0, calls, clock, transaction_buffer, heap, lock, last_cleanup, log>>

CallAssess(t, c, a) ==
    /\ pc[t] = "idle"
    /\ Len(log) + Pending < MaxRecords
    /\ pc' = [pc EXCEPT ![t] = "rec_lock"]
    /\ loc' = [loc EXCEPT ![t] = [IdleLoc EXCEPT !.op = "assess", !.cust = c, !.amt = a]]
    /\ UNCHANGED <<ledger0, calls, clock, transaction_buffer, heap, lock, last_cleanup, log>>

CallCalc(t, c, q) ==
    /\ pc[t] = "idle"
    /\ pc' = [pc EXCEPT ![t] = "calc_time"]
    /\ loc' = [loc EXCEPT ![t] =
                 [IdleLoc EXCEPT !.op = "calc", !.cust = c, !.qarg = q]]
    /\ UNCHANGED <<ledger0, calls, clock, transaction_buffer, heap, lock, last_cleanup, log>>

CallSummary(t, c) ==
    /\ pc[t] = "idle"
    /\ pc' = [pc EXCEPT ![t] = "calc_time"]
    /\ loc' = [loc EXCEPT ![t] =
                 [IdleLoc EXCEPT !.op = "summary", !.cust = c]]
    /\ UNCHANGED <<ledger0, calls, clock, transaction_buffer, heap, lock, last_cleanup, log>>

\* the caller of a query repeats the call it has just made, with the same
\* arguments; `first` keeps what the first call was given and returned
CallAgain(t) ==
    /\ pc[t] = "ret"
    /\ loc[t].op \in {"calc", "summary"}
    /\ loc[t].first = <<>>
    /\ pc' = [pc EXCEPT ![t] = "calc_time"]
    /\ loc' = [loc EXCEPT ![t] =
                 [IdleLoc EXCEPT !.op = loc[t].op, !.cust = loc[t].cust, !.qarg = loc[t].qarg,
                                 !.first = [q |-> loc[t].q, res |-> loc[t].res]]]
    /\ heap' = Collect(heap, transaction_buffer, loc')
    /\ UNCHANGED <<ledger0, calls, clock, transaction_buffer, lock, last_cleanup, log>>

(***************************************************************************)
(* record_transaction (lines 82-97).                                       *)
(***************************************************************************)
CanAcquireNoLock(t) == TRUE
\* threading.Lock: acquire succeeds only when nobody holds the lock
CanAcquire(t) == lock = "free"

\* with self._lock: current_time = time.time(); amount = float(...)
RecAcquire(t) ==
    /\ pc[t] = "rec_lock"
    /\ CanAcquire(t)
    /\ lock' = t
    /\ log' = Append(log, [cust |-> loc[t].cust, ts |-> clock, amt |-> loc[t].amt])
    /\ loc' = [loc EXCEPT ![t].now = clock, ![t].rid = Len(log) + 1]
    /\ pc' = [pc EXCEPT ![t] = "rec_lookup"]
    /\ UNCHANGED <<ledger0, calls, clock, transaction_buffer, heap, last_cleanup>>

\* customer_buffer = self.transaction_buffer[customer_id]: the key is there
\* or defaultdict.__missing__ is entered
RecLookup(t) ==
    /\ pc[t] = "rec_lookup"
    /\ IF Has(transaction_buffer, loc[t].cust)
       THEN /\ loc' = [loc EXCEPT ![t].ref = Get(transaction_buffer, loc[t].cust)]
            /\ pc' = [pc EXCEPT ![t] = "rec_app_tx"]
       ELSE /\ pc' = [pc EXCEPT ![t] = "rec_missing"]
            /\ loc' = loc
    /\ UNCHANGED <<ledger0, calls, clock, transaction_buffer, heap, lock, last_cleanup, log>>

\* defaultdict.__missing__: the factory's value is stored under the key
RecMissing(t) ==
    /\ pc[t] = "rec_missing"
    /\ LET o == FreshObj
           d == DictSet(transaction_buffer, loc[t].cust, o)
           l == [loc EXCEPT ![t].ref = o]
       IN /\ transaction_buffer' = d
          /\ loc' = l
          /\ heap' = Collect([heap EXCEPT ![o] = EmptyBuffer], d, l)
    /\ pc' = [pc EXCEPT ![t] = "rec_app_tx"]
    /\ UNCHANGED <<ledger0, calls, clock, lock, last_cleanup, log>>

\* customer_buffer['transactions'].append(transaction_data)
RecAppendTx(t) ==
    /\ pc[t] = "rec_app_tx"
    /\ heap' = [heap EXCEPT ![loc[t].ref].transactions =
                   DequeAppend(@, [id |-> loc[t].rid, v |-> loc[t].amt])]
    /\ loc' = loc
    /\ pc' = [pc EXCEPT ![t] = "rec_app_amt"]
    /\ UNCHANGED <<ledger0, calls, clock, transaction_buffer, lock, last_cleanup, log>>

\* customer_buffer['amounts'].append(amount)
RecAppendAmt(t) ==
    /\ pc[t] = "rec_app_amt"
    /\ heap' = [heap EXCEPT ![loc[t].ref].amounts =
                   DequeAppend(@, [id |-> loc[t].rid, v |-> loc[t].amt])]
    /\ loc' = loc
    /\ pc' = [pc EXCEPT ![t] = "rec_app_ts"]
    /\ UNCHANGED <<ledger0, calls, clock, transaction_buffer, lock, last_cleanup, log>>

\* customer_buffer['timestamps'].append(current_time)
RecAppendTs(t) ==
    /\ pc[t] = "rec_app_ts"
    /\ LET d == DequeAppend(heap[loc[t].ref].timestamps, [id |-> loc[t].rid, v |-> loc[t].now])
       IN /\ heap' = [heap EXCEPT ![loc[t].ref].timestamps = d]
          /\ loc' = [loc EXCEPT ![t].snap = Ids(d)]
    /\ pc' = [pc EXCEPT ![t] = "rec_check"]
    /\ UNCHANGED <<ledger0, calls, clock, transaction_buffer, lock, last_cleanup, log>>

CleanupDueAlways(t) == TRUE
\* if current_time - self._last_cleanup > self._cleanup_interval
CleanupDue(t) == loc[t].now - last_cleanup > cleanup_interval

\* where a record_transaction call returns to
AfterRecord(t) == IF loc[t].op = "assess" THEN "calc_time" ELSE "ret"

\* the condition is false: the with block ends, the lock is released
RecSkipCleanup(t) ==
    /\ pc[t] = "rec_check"
    /\ ~CleanupDue(t)
    /\ lock' = "free"
    /\ pc' = [pc EXCEPT ![t] = AfterRecord(t)]
    /\ loc' = loc
    /\ UNCHANGED <<ledger0, calls, clock, transaction_buffer, heap, last_cleanup, log>>

(***************************************************************************)
(* _cleanup_old_transactions (lines 99-117), called with the lock held.    *)
(***************************************************************************)
\* current_time = time.time(); cutoff_time = current_time - max_window;
\* list(self.transaction_buffer.keys())
CleanupStart(t) ==
    /\ pc[t] = "rec_check"
    /\ CleanupDue(t)
    /\ loc' = [loc EXCEPT ![t].ctime = clock, ![t].cutoff = clock - max_window,
                          ![t].ckeys = Keys(transaction_buffer)]
    /\ pc' = [pc EXCEPT ![t] = "cl_for"]
    /\ UNCHANGED <<ledger0, calls, clock, transaction_buffer, heap, lock, last_cleanup, log>>

RaiseHoldingLock(t) ==
    /\ lock' = lock
    /\ pc' = [pc EXCEPT ![t] = "ret"]
    /\ loc' = [loc EXCEPT ![t].exc = TRUE]
    /\ UNCHANGED <<ledger0, calls, transaction_buffer, heap>>

\* an exception leaves the with block: the lock is released and the call ends
Raise(t) ==
    /\ lock' = "free"
    /\ pc' = [pc EXCEPT ![t] = "ret"]
    /\ loc' = [loc EXCEPT ![t].exc = TRUE]
    /\ UNCHANGED <<ledger0, calls, transaction_buffer, heap>>

\* for customer_id in ...: customer_buffer = self.transaction_buffer[customer_id]
CleanupFor(t) ==
    /\ pc[t] = "cl_for"
    /\ IF loc[t].ckeys = <<>>
       THEN /\ pc' = [pc EXCEPT ![t] = "cl_done"]
            /\ loc' = [loc EXCEPT ![t].cref = 0]
            /\ heap' = Collect(heap, transaction_buffer, loc')
            /\ UNCHANGED transaction_buffer
       ELSE LET c == Head(loc[t].ckeys)
                o == IF Has(transaction_buffer, c) THEN Get(transaction_buffer, c) ELSE FreshObj
                d == DictSet(transaction_buffer, c, o)
                l == [loc EXCEPT ![t].ckeys = Tail(@), ![t].ccust = c, ![t].cref = o]
            IN /\ pc' = [pc EXCEPT ![t] = "cl_while"]
               /\ transaction_buffer' = d
               /\ loc' = l
               /\ heap' = Collect(heap, d, l)
    /\ UNCHANGED <<ledger0, calls, clock, lock, last_cleanup, log>>

StaleOrEqual(ts, cutoff) == ts <= cutoff
Fresh(ts, cutoff) == ts > cutoff
\* customer_buffer['timestamps'][0] < cutoff_time
Stale(ts, cutoff) == ts < cutoff

\* while (customer_buffer['timestamps'] and ... < cutoff_time)
CleanupWhile(t) ==
    /\ pc[t] = "cl_while"
    /\ LET d == heap[loc[t].cref].timestamps
       IN pc' = [pc EXCEPT ![t] =
                    IF d # <<>> /\ Stale(Head(d).v, loc[t].cutoff)
                    THEN "cl_pop_tx" ELSE "cl_if_empty"]
    /\ UNCHANGED <<ledger0, calls, clock, transaction_buffer, heap, lock, last_cleanup, loc, log>>

PopLeftTimestampsOnly(t, f, next) ==
    IF heap[loc[t].cref][f] = <<>>
    THEN Raise(t)
    ELSE /\ heap' = [heap EXCEPT ![loc[t].cref][f] = IF f = "timestamps" THEN Tail(@) ELSE @]
         /\ pc' = [pc EXCEPT ![t] = next]
         /\ loc' = loc
         /\ UNCHANGED <<ledger0, calls, transaction_buffer, lock>>

\* deque.popleft() of field f; IndexError when the deque is empty
PopLeft(t, f, next) ==
    IF heap[loc[t].cref][f] = <<>>
    THEN Raise(t)
    ELSE /\ heap' = [heap EXCEPT ![loc[t].cref][f] = Tail(@)]
         /\ pc' = [pc EXCEPT ![t] = next]
         /\ loc' = loc
         /\ UNCHANGED <<ledger0, calls, transaction_buffer, lock>>

\* customer_buffer['transactions'].popleft()
CleanupPopTx(t) ==
    /\ pc[t] = "cl_pop_tx"
    /\ PopLeft(t, "transactions", "cl_pop_amt")
    /\ UNCHANGED <<ledger0, calls, clock, last_cleanup, log>>

\* customer_buffer['amounts'].popleft()
CleanupPopAmt(t) ==
    /\ pc[t] = "cl_pop_amt"
    /\ PopLeft(t, "amounts", "cl_pop_ts")
    /\ UNCHANGED <<ledger0, calls, clock, last_cleanup, log>>

\* customer_buffer['timestamps'].popleft()
CleanupPopTs(t) ==
    /\ pc[t] = "cl_pop_ts"
    /\ PopLeft(t, "timestamps", "cl_while")
    /\ UNCHANGED <<ledger0, calls, clock, last_cleanup, log>>

\* if not customer_buffer['timestamps']: del self.transaction_buffer[customer_id]
CleanupIfEmpty(t) ==
    /\ pc[t] = "cl_if_empty"
    /\ IF heap[loc[t].cref].timestamps # <<>>
       THEN /\ pc' = [pc EXCEPT ![t] = "cl_for"]
            /\ UNCHANGED <<ledger0, calls, transaction_buffer, heap, lock, loc>>
       ELSE IF ~Has(transaction_buffer, loc[t].ccust)
       THEN Raise(t)
       ELSE LET d == DictDel(transaction_buffer, loc[t].ccust)
                l == [loc EXCEPT ![t].cref = 0]
            IN /\ transaction_buffer' = d
               /\ loc' = l
               /\ heap' = Collect(heap, d, l)
               /\ pc' = [pc EXCEPT ![t] = "cl_for"]
               /\ lock' = lock
    /\ UNCHANGED <<ledger0, calls, clock, last_cleanup, log>>

\* self._last_cleanup = current_time; the with block ends
RecFinishCleanup(t) ==
    /\ pc[t] = "cl_done"
    /\ last_cleanup' = loc[t].now
    /\ lock' = "free"
    /\ pc' = [pc EXCEPT ![t] = AfterRecord(t)]
    /\ loc' = loc
    /\ UNCHANGED <<ledger0, calls, clock, transaction_buffer, heap, log>>

(***************************************************************************)
(* calculate_velocity_metrics (lines 119-168): no lock is taken.           *)
(***************************************************************************)
\* zip(timestamps, amounts): pairs up to the shorter list
Zip(ts, am) == [i \in 1 .. Min2(Len(ts), Len(am)) |-> [t |-> ts[i], a |-> am[i]]]

WindowPairsStrict(pairs, cutoff) == SelectSeq(pairs, LAMBDA p : p.t.v > cutoff)
\* if timestamp >= cutoff_time: the pairs appended to the window lists
WindowPairs(pairs, cutoff) == SelectSeq(pairs, LAMBDA p : p.t.v >= cutoff)

\* lines 140-166 for one window
WindowMetrics(pairs, current_time, window_seconds) ==
    LET win == WindowPairs(pairs, current_time - window_seconds)
        window_transactions == [i \in 1 .. Len(win) |-> win[i].t]
        window_amounts == [i \in 1 .. Len(win) |-> win[i].a]
        n == Len(win)
        time_span == IF n = 0 THEN 0 ELSE MaxV(window_transactions) - MinV(window_transactions)
    IN [count |-> n,
        total_amount |-> SumV(window_amounts),
        avg_amount |-> IF n # 0 THEN Frac(SumV(window_amounts), n) ELSE Frac(0, 1),
        max_amount |-> IF n # 0 THEN MaxV(window_amounts) ELSE 0,
        rate |-> IF n # 0
                 THEN (IF time_span > 0 THEN Frac(n, Max2(time_span, 1)) ELSE Frac(n, 1))
                 ELSE Frac(0, 1),
        used |-> win]

\* _empty_velocity_metrics
EmptyVelocityMetrics ==
    [w \in WindowNames |->
        [count |-> 0, total_amount |-> 0, avg_amount |-> Frac(0, 1), max_amount |-> 0,
         rate |-> Frac(0, 1), used |-> <<>>]]

\* lines 133-168; `used` is history: the zip pairs that entered each window
VelocityMetrics(timestamps, amounts, current_time) ==
    IF timestamps = <<>> THEN EmptyVelocityMetrics
    ELSE [w \in WindowNames |->
            WindowMetrics(Zip(timestamps, amounts), current_time, time_windows[w])]

\* get_customer_velocity_summary (lines 386-406)
VelocitySummary(c, m) ==
    [customer_id |-> c,
     total_transactions_24h |-> m["day_window"].count,
     total_amount_24h |-> m["day_window"].total_amount,
     avg_amount_24h |-> m["day_window"].avg_amount,
     max_amount_24h |-> m["day_window"].max_amount,
     transaction_rate_24h |-> m["day_window"].rate,
     last_hour_count |-> m["hour_window"].count,
     last_minute_count |-> m["minute_window"].count,
     last_hour_amount |-> m["hour_window"].total_amount,
     last_minute_amount |-> m["minute_window"].total_amount]

(***************************************************************************)
(* Arithmetic on the fractions that stand for Python's floats.             *)
(***************************************************************************)
Zero == Frac(0, 1)
One == Frac(1, 1)
LCM(a, b) == (a \div GCD(a, b)) * b
FAdd(x, y) ==
    LET l == LCM(x[2], y[2]) IN Frac(x[1] * (l \div x[2]) + y[1] * (l \div y[2]), l)
FMul(x, y) ==
    LET a == Frac(x[1], y[2])
        b == Frac(y[1], x[2])
    IN <<a[1] * b[1], a[2] * b[2]>>
FDiv(x, y) == FMul(x, <<y[2], y[1]>>)
FLt(x, y) == x[1] * y[2] < y[1] * x[2]
FLe(x, y) == x[1] * y[2] <= y[1] * x[2]
FMin(x, y) == IF FLe(x, y) THEN x ELSE y
FMax(x, y) == IF FLe(y, x) THEN x ELSE y
\* round(x, 4): the nearest multiple of 1/10000
Round4(x) == Frac((2 * 10000 * x[1] + x[2]) \div (2 * x[2]), 10000)

(***************************************************************************)
(* Velocity scoring (assess_velocity_risk and its helpers, lines 181-384). *)
(* The metrics argument m is what calculate_velocity_metrics returned.     *)
(***************************************************************************)
\* VelocityMonitor._load_config: velocity_thresholds
velocity_thresholds ==
    [max_transactions_per_minute |-> 10, max_transactions_per_hour |-> 100,
     max_transactions_per_day |-> 500,
     max_amount_per_minute |-> 50000, max_amount_per_hour |-> 200000,
     max_amount_per_day |-> 1000000,
     high_velocity_threshold |-> Frac(8, 10), medium_velocity_threshold |-> Frac(5, 10),
     low_velocity_threshold |-> Frac(3, 10)]

risk_weights_not_normalised ==
    [frequency_weight |-> Frac(4, 10), volume_weight |-> Frac(4, 10),
     pattern_weight |-> Frac(4, 10)]
\* VelocityMonitor._load_config: risk_weights
risk_weights ==
    [frequency_weight |-> Frac(4, 10), volume_weight |-> Frac(4, 10),
     pattern_weight |-> Frac(2, 10)]

\* min(x / max, 2.0) / 2.0
Scaled(x, max) == FDiv(FMin(Frac(x, max), Frac(2, 1)), Frac(2, 1))

WindowRiskOverwritten(risk_score, x, max) == IF x > max THEN Scaled(x, max) ELSE Zero
WindowRiskFlipped(risk_score, x, max) ==
    IF x < max THEN FMax(risk_score, Scaled(x, max)) ELSE risk_score
\* if x > max: risk_score = max(risk_score, min(x / max, 2.0) / 2.0)
WindowRisk(risk_score, x, max) ==
    IF x > max THEN FMax(risk_score, Scaled(x, max)) ELSE risk_score

\* _calculate_frequency_risk (lines 234-257)
CalculateFrequencyRisk(m) ==
    LET r1 == WindowRisk(Zero, m["minute_window"].count,
                         velocity_thresholds.max_transactions_per_minute)
        r2 == WindowRisk(r1, m["hour_window"].count,
                         velocity_thresholds.max_transactions_per_hour)
        r3 == WindowRisk(r2, m["day_window"].count,
                         velocity_thresholds.max_transactions_per_day)
    IN FMin(r3, One)

\* _calculate_volume_risk (lines 259-282)
CalculateVolumeRisk(m) ==
    LET r1 == WindowRisk(Zero, m["minute_window"].total_amount,
                         velocity_thresholds.max_amount_per_minute)
        r2 == WindowRisk(r1, m["hour_window"].total_amount,
                         velocity_thresholds.max_amount_per_hour)
        r3 == WindowRisk(r2, m["day_window"].total_amount,
                         velocity_thresholds.max_amount_per_day)
    IN FMin(r3, One)

\* current_hour < 6 or current_hour > 22
OffHours(current_hour) == current_hour < 6 \/ current_hour > 22

\* burst_ratio > 5, with burst_ratio = minute_count / max(hour_count / 60, 1)
BurstRatioHigh(minute_count, hour_count) ==
    FLt(Frac(5, 1), FDiv(Frac(minute_count, 1), FMax(Frac(hour_count, 60), One)))

\* _calculate_pattern_risk (lines 284-314); current_hour is datetime.now().hour
CalculatePatternRisk(m, transaction_amount, current_hour) ==
    LET minute_count == m["minute_window"].count
        hour_count == m["hour_window"].count
        minute_avg == m["minute_window"].avg_amount
        hour_avg == m["hour_window"].avg_amount
        current_amount == Frac(transaction_amount, 1)
        r1 == IF minute_count > 0 /\ hour_count > 0 /\ BurstRatioHigh(minute_count, hour_count)
              THEN Frac(3, 10) ELSE Zero
        r2 == IF OffHours(current_hour) /\ minute_count > 3
              THEN FAdd(r1, Frac(2, 10)) ELSE r1
        r3 == IF FLt(Zero, minute_avg) /\ FLt(FMul(minute_avg, Frac(3, 1)), current_amount)
              THEN FAdd(r2, Frac(2, 10)) ELSE r2
        r4 == IF FLt(Zero, hour_avg) /\ FLt(FMul(hour_avg, Frac(2, 1)), minute_avg)
              THEN FAdd(r3, Frac(3, 10)) ELSE r3
    IN FMin(r4, One)

\* flags.append(name) under a condition
AppendIf(flags, cond, name) == IF cond THEN Append(flags, name) ELSE flags

\* "name" in flags
In(name, flags) == \E i \in 1 .. Len(flags) : flags[i] = name

\* _generate_velocity_flags (lines 316-355); current_hour is its own
\* datetime.now().hour
GenerateVelocityFlags(m, current_hour) ==
    LET th == velocity_thresholds
        f1 == AppendIf(<<>>, m["minute_window"].count > th.max_transactions_per_minute,
                       "HIGH_FREQUENCY_MINUTE")
        f2 == AppendIf(f1, m["hour_window"].count > th.max_transactions_per_hour,
                       "HIGH_FREQUENCY_HOUR")
        f3 == AppendIf(f2, m["day_window"].count > th.max_transactions_per_day,
                       "HIGH_FREQUENCY_DAY")
        f4 == AppendIf(f3, m["minute_window"].total_amount > th.max_amount_per_minute,
                       "HIGH_VOLUME_MINUTE")
        f5 == AppendIf(f4, m["hour_window"].total_amount > th.max_amount_per_hour,
                       "HIGH_VOLUME_HOUR")
        f6 == AppendIf(f5, m["day_window"].total_amount > th.max_amount_per_day,
                       "HIGH_VOLUME_DAY")
        f7 == AppendIf(f6, m["minute_window"].count >= 5, "BURST_PATTERN")
        f8 == AppendIf(f7, OffHours(current_hour) /\ m["minute_window"].count > 0,
                       "OFF_HOURS_ACTIVITY")
    IN AppendIf(f8, FLt(Frac(5, 10), m["minute_window"].rate), "RAPID_FIRE_TRANSACTIONS")

\* _generate_velocity_recommendations (lines 357-384)
GenerateVelocityRecommendations(risk_score, flags) ==
    LET r1 == IF FLe(Frac(8, 10), risk_score)
              THEN <<"IMMEDIATE_VELOCITY_REVIEW", "TEMPORARY_TRANSACTION_HOLD">> ELSE <<>>
        r2 == IF FLe(Frac(6, 10), risk_score)
              THEN r1 \o <<"ENHANCED_VELOCITY_MONITORING", "CUSTOMER_VERIFICATION_REQUIRED">>
              ELSE r1
        r3 == AppendIf(r2, In("BURST_PATTERN", flags), "INVESTIGATE_BURST_ACTIVITY")
        r4 == AppendIf(r3, In("HIGH_FREQUENCY_MINUTE", flags), "RATE_LIMIT_CUSTOMER")
        r5 == AppendIf(r4, In("OFF_HOURS_ACTIVITY", flags), "VERIFY_CUSTOMER_LOCATION")
        r6 == AppendIf(r5, In("RAPID_FIRE_TRANSACTIONS", flags), "CHECK_FOR_AUTOMATED_ACTIVITY")
    IN IF r6 = <<>> THEN <<"STANDARD_VELOCITY_PROCESSING">> ELSE r6

VelocityRiskLevelStrict(overall_risk) ==
    IF FLt(velocity_thresholds.high_velocity_threshold, overall_risk) THEN "HIGH"
    ELSE IF FLt(velocity_thresholds.medium_velocity_threshold, overall_risk) THEN "MEDIUM"
    ELSE IF FLt(velocity_thresholds.low_velocity_threshold, overall_risk) THEN "LOW"
    ELSE "MINIMAL"
\* lines 204-212
VelocityRiskLevel(overall_risk) ==
    IF FLe(velocity_thresholds.high_velocity_threshold, overall_risk) THEN "HIGH"
    ELSE IF FLe(velocity_thresholds.medium_velocity_threshold, overall_risk) THEN "MEDIUM"
    ELSE IF FLe(velocity_thresholds.low_velocity_threshold, overall_risk) THEN "LOW"
    ELSE "MINIMAL"

\* lines 190-232: what assess_velocity_risk builds from the metrics;
\* hours is the pair of datetime.now().hour values read by
\* _calculate_pattern_risk and by _generate_velocity_flags
VelocityAssessment(m, transaction_amount, hours) ==
    LET frequency_risk == CalculateFrequencyRisk(m)
        volume_risk == CalculateVolumeRisk(m)
        pattern_risk == CalculatePatternRisk(m, transaction_amount, hours[1])
        overall_risk ==
            FAdd(FAdd(FMul(frequency_risk, risk_weights.frequency_weight),
                      FMul(volume_risk, risk_weights.volume_weight)),
                 FMul(pattern_risk, risk_weights.pattern_weight))
        velocity_flags == GenerateVelocityFlags(m, hours[2])
    IN [velocity_risk_score |-> Round4(overall_risk),
        velocity_risk_level |-> VelocityRiskLevel(overall_risk),
        velocity_flags |-> velocity_flags,
        velocity_recommendations |-> GenerateVelocityRecommendations(overall_risk, velocity_flags),
        velocity_metrics |-> m,
        velocity_component_scores |->
            [frequency_risk |-> Round4(frequency_risk),
             volume_risk |-> Round4(volume_risk),
             pattern_risk |-> Round4(pattern_risk)],
        requires_velocity_review |-> FLe(Frac(7, 10), overall_risk)]

\* if current_time is None: current_time = time.time()
CalcTime(t) ==
    /\ pc[t] = "calc_time"
    /\ loc' = [loc EXCEPT ![t].q = IF loc[t].qarg = None THEN clock ELSE loc[t].qarg]
    /\ pc' = [pc EXCEPT ![t] = "calc_get"]
    /\ UNCHANGED <<ledger0, calls, clock, transaction_buffer, heap, lock, last_cleanup, log>>

DictGetOrInsert(t) ==
    IF Has(transaction_buffer, loc[t].cust)
    THEN [d |-> transaction_buffer, o |-> Get(transaction_buffer, loc[t].cust)]
    ELSE [d |-> Append(transaction_buffer, [k |-> loc[t].cust, v |-> FreshObj]), o |-> FreshObj]
\* self.transaction_buffer.get(customer_id, {...}): the stored buffer, or a
\* private empty one (object 0) that is not put in the store
DictGet(t) ==
    IF Has(transaction_buffer, loc[t].cust)
    THEN [d |-> transaction_buffer, o |-> Get(transaction_buffer, loc[t].cust)]
    ELSE [d |-> transaction_buffer, o |-> 0]

CalcGet(t) ==
    /\ pc[t] = "calc_get"
    /\ LET g == DictGet(t)
       IN /\ transaction_buffer' = g.d
          /\ loc' = [loc EXCEPT ![t].ref = g.o]
    /\ pc' = [pc EXCEPT ![t] = "calc_ts"]
    /\ UNCHANGED <<ledger0, calls, clock, heap, lock, last_cleanup, log>>

\* timestamps = list(customer_buffer['timestamps'])
CalcCopyTimestamps(t) ==
    /\ pc[t] = "calc_ts"
    /\ loc' = [loc EXCEPT ![t].tcopy = IF loc[t].ref = 0 THEN <<>> ELSE heap[loc[t].ref].timestamps]
    /\ pc' = [pc EXCEPT ![t] = "calc_am"]
    /\ UNCHANGED <<ledger0, calls, clock, transaction_buffer, heap, lock, last_cleanup, log>>

\* amounts = list(customer_buffer['amounts'])
CalcCopyAmounts(t) ==
    /\ pc[t] = "calc_am"
    /\ loc' = [loc EXCEPT ![t].acopy = IF loc[t].ref = 0 THEN <<>> ELSE heap[loc[t].ref].amounts]
    /\ pc' = [pc EXCEPT ![t] = "calc_body"]
    /\ UNCHANGED <<ledger0, calls, clock, transaction_buffer, heap, lock, last_cleanup, log>>

\* datetime.now().hour, the local time being UTC
HourOf(c) == (c \div 3600) % 24

\* lines 133-168, and for the callers what they build from the metrics
CalcBody(t) ==
    /\ pc[t] = "calc_body"
    /\ \E m \in {VelocityMetrics(loc[t].tcopy, loc[t].acopy, loc[t].q)} :
          loc' = [loc EXCEPT ![t].res =
                     [metrics |-> m,
                      summary |-> IF loc[t].op = "summary"
                                  THEN VelocitySummary(loc[t].cust, m) ELSE <<>>,
                      assessment |-> IF loc[t].op = "assess"
                                     THEN VelocityAssessment(m, loc[t].amt,
                                                             <<HourOf(clock), HourOf(clock)>>)
                                     ELSE <<>>]]
    /\ pc' = [pc EXCEPT ![t] = "ret"]
    /\ UNCHANGED <<ledger0, calls, clock, transaction_buffer, heap, lock, last_cleanup, log>>

(***************************************************************************)
(* Return to the caller: the frame's locals are dropped.                   *)
(***************************************************************************)
Return(t) ==
    /\ pc[t] = "ret"
    /\ pc' = [pc EXCEPT ![t] = "idle"]
    /\ loc' = [loc EXCEPT ![t] = IdleLoc]
    /\ heap' = Collect(heap, transaction_buffer, loc')
    /\ UNCHANGED <<ledger0, calls, clock, transaction_buffer, lock, last_cleanup, log>>

\* the steps inside the methods
Body(t) ==
    \/ RecAcquire(t)
    \/ RecLookup(t)
    \/ RecMissing(t)
    \/ RecAppendTx(t)
    \/ RecAppendAmt(t)
    \/ RecAppendTs(t)
    \/ RecSkipCleanup(t)
    \/ CleanupStart(t)
    \/ CleanupFor(t)
    \/ CleanupWhile(t)
    \/ CleanupPopTx(t)
    \/ CleanupPopAmt(t)
    \/ CleanupPopTs(t)
    \/ CleanupIfEmpty(t)
    \/ RecFinishCleanup(t)
    \/ CalcTime(t)
    \/ CalcGet(t)
    \/ CalcCopyTimestamps(t)
    \/ CalcCopyAmounts(t)
    \/ CalcBody(t)

(***************************************************************************)
(* record_transaction with a transaction_amount that float() rejects.      *)
(***************************************************************************)
CallRecordGiven(t, c) ==
    /\ pc[t] = "idle"
    /\ pc' = [pc EXCEPT ![t] = "rec_lock_given"]
    /\ loc' = [loc EXCEPT ![t] = [IdleLoc EXCEPT !.op = "record", !.cust = c, !.amt = None]]
    /\ UNCHANGED <<ledger0, calls, clock, transaction_buffer, heap, lock, last_cleanup, log>>

\* with self._lock: current_time = time.time()
RecAcquireGiven(t) ==
    /\ pc[t] = "rec_lock_given"
    /\ CanAcquire(t)
    /\ lock' = t
    /\ loc' = [loc EXCEPT ![t].now = clock]
    /\ pc' = [pc EXCEPT ![t] = "rec_float"]
    /\ UNCHANGED <<ledger0, calls, clock, transaction_buffer, heap, last_cleanup, log>>

\* amount = float(transaction_data.get("transaction_amount", 0)) raises
RecFloat(t) ==
    /\ pc[t] = "rec_float"
    /\ Raise(t)
    /\ UNCHANGED <<clock, last_cleanup, log>>

\* the steps inside record_transaction
RecordBody(t) ==
    \/ RecAcquire(t)
    \/ RecLookup(t)
    \/ RecMissing(t)
    \/ RecAppendTx(t)
    \/ RecAppendAmt(t)
    \/ RecAppendTs(t)
    \/ RecSkipCleanup(t)
    \/ CleanupStart(t)
    \/ CleanupFor(t)
    \/ CleanupWhile(t)
    \/ CleanupPopTx(t)
    \/ CleanupPopAmt(t)
    \/ CleanupPopTs(t)
    \/ CleanupIfEmpty(t)
    \/ RecFinishCleanup(t)
    \/ RecAcquireGiven(t)
    \/ RecFloat(t)

(***************************************************************************)
(* AML screening (src/src/aml_compliance.py, class AMLComplianceChecker).  *)
(* A string is modelled as the sequence of its words; `pattern in string`  *)
(* holds when the pattern is one of the words.  A history entry is         *)
(* [transaction_amount, timestamp], the timestamp a form and an instant.    *)
(***************************************************************************)
\* AMLComplianceChecker._load_config: risk_thresholds
risk_thresholds ==
    [structuring_threshold |-> 10000, rapid_movement_threshold |-> 50000,
     velocity_threshold |-> 100000, suspicious_pattern_threshold |-> 25000]

\* AMLComplianceChecker._load_config: time_windows
aml_time_windows ==
    [structuring_window_hours |-> 24, rapid_movement_window_hours |-> 6,
     velocity_window_hours |-> 24]

\* AMLComplianceChecker._load_config: sanctions_list
sanctions_list == <<"SANCTIONED_ENTITY_1", "BLOCKED_COUNTRY_CODE">>

high_risk_categories == {"CASH_ADVANCE", "GAMBLING", "CRYPTOCURRENCY", "MONEY_TRANSFER"}
high_risk_locations == <<"OFFSHORE", "SANCTIONS_COUNTRY", "HIGH_RISK_JURISDICTION">>

aml_weights_equal ==
    [structuring |-> Frac(25, 100), rapid_movement |-> Frac(25, 100),
     suspicious_patterns |-> Frac(25, 100), sanctions |-> Frac(25, 100)]
\* weights of calculate_overall_aml_risk
aml_weights ==
    [structuring |-> Frac(20, 100), rapid_movement |-> Frac(20, 100),
     suspicious_patterns |-> Frac(35, 100), sanctions |-> Frac(25, 100)]

WordUnchanged(w) == w
\* str.upper() of one word
UpperWord(w) ==
    CASE w = "sanctioned_entity_1" -> "SANCTIONED_ENTITY_1"
      [] w = "blocked_country_code" -> "BLOCKED_COUNTRY_CODE"
      [] w = "offshore" -> "OFFSHORE"
      [] w = "regular" -> "REGULAR"
      [] w = "customer" -> "CUSTOMER"
      [] w = "store" -> "STORE"
      [] w = "domestic" -> "DOMESTIC"
      [] OTHER -> w

\* str.upper()
Upper(s) == [i \in 1 .. Len(s) |-> UpperWord(s[i])]

\* pattern in string
Contains(s, pattern) == \E i \in 1 .. Len(s) : s[i] = pattern

\* any(p in string for p in patterns)
ContainsAny(s, patterns) == \E j \in 1 .. Len(patterns) : Contains(s, patterns[j])

\* datetime.fromisoformat(timestamp.replace('Z', '+00:00')): a trailing Z
\* becomes a UTC offset, so the value is timezone-aware; text that is no
\* ISO-8601 date has no value (ValueError)
FromIsoFormat(timestamp) ==
    CASE timestamp.form = "iso" -> [parsed |-> TRUE, aware |-> FALSE, at |-> timestamp.at]
      [] timestamp.form = "iso_z" -> [parsed |-> TRUE, aware |-> TRUE, at |-> timestamp.at]
      [] OTHER -> [parsed |-> FALSE, aware |-> FALSE, at |-> 0]

\* _is_within_time_window (lines 263-274): a string is parsed, any other
\* value is taken as it is; now = datetime.now() has no timezone, and
\* subtracting None or a timezone-aware value from it raises TypeError; the
\* handler answers False to every exception
IsWithinTimeWindow(timestamp, window_hours, now) ==
    LET trans_time == IF timestamp.form \in {"iso", "iso_z", "text"}
                      THEN FromIsoFormat(timestamp)
                      ELSE [parsed |-> timestamp.form = "datetime", aware |-> FALSE,
                            at |-> timestamp.at]
    IN IF ~trans_time.parsed \/ trans_time.aware
       THEN FALSE
       ELSE now - trans_time.at <= window_hours * 3600

\* the entries of a history within the window
Recent(history, window_hours, now) ==
    SelectSeq(history, LAMBDA t : IsWithinTimeWindow(t.timestamp, window_hours, now))

RECURSIVE SumAmounts(_)
\* sum(recent_amounts)
SumAmounts(h) == IF h = <<>> THEN 0 ELSE Head(h).transaction_amount + SumAmounts(Tail(h))

\* check_structuring (lines 60-92)
CheckStructuring(txn, transaction_history, now) ==
    LET amount == txn.transaction_amount
        ctr_threshold == risk_thresholds.structuring_threshold
        near == 8 * ctr_threshold <= 10 * amount /\ amount < ctr_threshold
        recent == Recent(transaction_history, aml_time_windows.structuring_window_hours, now)
        multiple == /\ transaction_history # <<>>
                    /\ SumAmounts(recent) + amount > ctr_threshold
                    /\ Len(recent) >= 3
        r1 == IF near THEN Frac(4, 10) ELSE Zero
        r2 == IF multiple THEN FAdd(r1, Frac(6, 10)) ELSE r1
    IN [structuring_risk_score |-> FMin(r2, One),
        structuring_flags |->
            AppendIf(AppendIf(<<>>, near, "AMOUNT_NEAR_CTR_THRESHOLD"),
                     multiple, "MULTIPLE_TRANSACTIONS_ABOVE_THRESHOLD")]

\* amount % 1000 == 0 and amount >= 5000
RoundAmount(amount) == amount % 1000 = 0 /\ amount >= 5000

\* check_rapid_movement (lines 94-128)
CheckRapidMovement(txn, account_history, now) ==
    LET amount == txn.transaction_amount
        large == amount > risk_thresholds.rapid_movement_threshold
        round == RoundAmount(amount)
        recent == Recent(account_history, aml_time_windows.rapid_movement_window_hours, now)
        frequent == account_history # <<>> /\ Len(recent) >= 5
        r1 == IF large THEN Frac(3, 10) ELSE Zero
        r2 == IF round THEN FAdd(r1, Frac(2, 10)) ELSE r1
        r3 == IF frequent THEN FAdd(r2, Frac(4, 10)) ELSE r2
    IN [rapid_movement_risk_score |-> FMin(r3, One),
        rapid_movement_flags |->
            AppendIf(AppendIf(AppendIf(<<>>, large, "LARGE_SINGLE_TRANSACTION"),
                              round, "ROUND_AMOUNT_TRANSACTION"),
                     frequent, "HIGH_FREQUENCY_TRANSACTIONS")]

RECURSIVE Digits(_)
\* str(int(amount)) for a non-negative amount: its decimal digits
Digits(n) == IF n < 10 THEN <<n>> ELSE Append(Digits(n \div 10), n % 10)

\* len(set(amount_str)) == 1 and len(amount_str) >= 4
RepeatedDigits(amount) ==
    LET d == Digits(amount)
    IN Cardinality({d[i] : i \in 1 .. Len(d)}) = 1 /\ Len(d) >= 4

\* check_suspicious_patterns (lines 130-168)
CheckSuspiciousPatterns(txn) ==
    LET timing == OffHours(txn.transaction_hour)
        category == txn.merchant_category \in high_risk_categories
        place == ContainsAny(Upper(txn.location), high_risk_locations)
        digits == RepeatedDigits(txn.transaction_amount)
        r1 == IF timing THEN Frac(2, 10) ELSE Zero
        r2 == IF category THEN FAdd(r1, Frac(3, 10)) ELSE r1
        r3 == IF place THEN FAdd(r2, Frac(4, 10)) ELSE r2
        r4 == IF digits THEN FAdd(r3, Frac(3, 10)) ELSE r3
    IN [suspicious_pattern_risk_score |-> FMin(r4, One),
        suspicious_pattern_flags |->
            AppendIf(AppendIf(AppendIf(AppendIf(<<>>, timing, "UNUSUAL_TIMING"),
                                       category, "HIGH_RISK_MERCHANT_CATEGORY"),
                              place, "HIGH_RISK_LOCATION"),
                     digits, "REPEATED_DIGIT_AMOUNT")]

\* sanctioned_entity in customer_name or sanctioned_entity in merchant_name,
\* for some entity of the list (the loop stops at the first one)
NameMatch(txn) ==
    \E j \in 1 .. Len(sanctions_list) :
        \/ Contains(Upper(txn.customer_name), sanctions_list[j])
        \/ Contains(Upper(txn.merchant_name), sanctions_list[j])

\* any(sanctions in location for sanctions in sanctions_list)
LocationMatch(txn) == ContainsAny(Upper(txn.location), sanctions_list)

\* check_sanctions_screening (lines 170-198)
CheckSanctionsScreening(txn) ==
    LET r1 == IF NameMatch(txn) THEN One ELSE Zero
        r2 == IF LocationMatch(txn) THEN FMax(r1, Frac(8, 10)) ELSE r1
    IN [sanctions_risk_score |-> r2,
        sanctions_flags |->
            AppendIf(AppendIf(<<>>, NameMatch(txn), "SANCTIONS_MATCH"),
                     LocationMatch(txn), "SANCTIONS_LOCATION")]

\* the words of a flag name
FlagWords(flag) ==
    CASE flag = "AMOUNT_NEAR_CTR_THRESHOLD" -> <<"AMOUNT", "NEAR", "CTR", "THRESHOLD">>
      [] flag = "MULTIPLE_TRANSACTIONS_ABOVE_THRESHOLD" ->
             <<"MULTIPLE", "TRANSACTIONS", "ABOVE", "THRESHOLD">>
      [] flag = "LARGE_SINGLE_TRANSACTION" -> <<"LARGE", "SINGLE", "TRANSACTION">>
      [] flag = "ROUND_AMOUNT_TRANSACTION" -> <<"ROUND", "AMOUNT", "TRANSACTION">>
      [] flag = "HIGH_FREQUENCY_TRANSACTIONS" -> <<"HIGH", "FREQUENCY", "TRANSACTIONS">>
      [] flag = "UNUSUAL_TIMING" -> <<"UNUSUAL", "TIMING">>
      [] flag = "HIGH_RISK_MERCHANT_CATEGORY" -> <<"HIGH", "RISK", "MERCHANT", "CATEGORY">>
      [] flag = "HIGH_RISK_LOCATION" -> <<"HIGH", "RISK", "LOCATION">>
      [] flag = "REPEATED_DIGIT_AMOUNT" -> <<"REPEATED", "DIGIT", "AMOUNT">>
      [] flag = "SANCTIONS_MATCH" -> <<"SANCTIONS", "MATCH">>
      [] flag = "SANCTIONS_LOCATION" -> <<"SANCTIONS", "LOCATION">>
      [] OTHER -> <<flag>>

\* _generate_recommendations (lines 276-299)
GenerateRecommendations(risk_score, flags) ==
    LET r1 == IF FLe(Frac(8, 10), risk_score)
              THEN <<"IMMEDIATE_MANUAL_REVIEW_REQUIRED", "CONSIDER_SUSPICIOUS_ACTIVITY_REPORT">>
              ELSE <<>>
        r2 == IF FLe(Frac(5, 10), risk_score)
              THEN r1 \o <<"ENHANCED_DUE_DILIGENCE", "ADDITIONAL_DOCUMENTATION_REQUIRED">>
              ELSE r1
        r3 == IF In("SANCTIONS_MATCH", flags)
              THEN r2 \o <<"BLOCK_TRANSACTION_IMMEDIATELY", "REPORT_TO_COMPLIANCE_TEAM">>
              ELSE r2
        r4 == IF \E i \in 1 .. Len(flags) : Contains(FlagWords(flags[i]), "STRUCTURING")
              THEN r3 \o <<"MONITOR_CUSTOMER_PATTERN", "REVIEW_TRANSACTION_HISTORY">>
              ELSE r3
    IN IF r4 = <<>> THEN <<"STANDARD_PROCESSING">> ELSE r4

\* lines 228-236
AmlRiskLevel(overall_risk) ==
    IF FLe(Frac(60, 100), overall_risk) THEN "HIGH"
    ELSE IF FLe(Frac(35, 100), overall_risk) THEN "MEDIUM"
    ELSE IF FLe(Frac(20, 100), overall_risk) THEN "LOW"
    ELSE "MINIMAL"

\* overall_risk >= 0.7 or "SANCTIONS_MATCH" in all_flags
RequiresManualReview(overall_risk, all_flags) ==
    FLe(Frac(7, 10), overall_risk) \/ In("SANCTIONS_MATCH", all_flags)

\* calculate_overall_aml_risk (lines 200-261)
CalculateOverallAmlRisk(txn, transaction_history, account_history, now) ==
    LET structuring_result == CheckStructuring(txn, transaction_history, now)
        rapid_movement_result == CheckRapidMovement(txn, account_history, now)
        pattern_result == CheckSuspiciousPatterns(txn)
        sanctions_result == CheckSanctionsScreening(txn)
        overall_risk ==
            FAdd(FAdd(FMul(structuring_result.structuring_risk_score, aml_weights.structuring),
                      FMul(rapid_movement_result.rapid_movement_risk_score,
                           aml_weights.rapid_movement)),
                 FAdd(FMul(pattern_result.suspicious_pattern_risk_score,
                           aml_weights.suspicious_patterns),
                      FMul(sanctions_result.sanctions_risk_score, aml_weights.sanctions)))
        all_flags == structuring_result.structuring_flags
                     \o rapid_movement_result.rapid_movement_flags
                     \o pattern_result.suspicious_pattern_flags
                     \o sanctions_result.sanctions_flags
    IN [aml_overall_risk_score |-> Round4(overall_risk),
        aml_risk_level |-> AmlRiskLevel(overall_risk),
        aml_flags |-> all_flags,
        aml_recommendations |-> GenerateRecommendations(overall_risk, all_flags),
        aml_component_scores |->
            [structuring |-> Round4(structuring_result.structuring_risk_score),
             rapid_movement |-> Round4(rapid_movement_result.rapid_movement_risk_score),
             suspicious_patterns |-> Round4(pattern_result.suspicious_pattern_risk_score),
             sanctions |-> Round4(sanctions_result.sanctions_risk_score)],
        requires_manual_review |-> RequiresManualReview(overall_risk, all_flags),
        rapid_movement_result |-> rapid_movement_result,
        sanctions_result |-> sanctions_result]

(***************************************************************************)
(* Spec: the threads run concurrently; every thread records and assesses,  *)
(* the Readers also query at the current time.                             *)
(***************************************************************************)
Next ==
    \/ Tick(Instants)
    \/ \E t \in Threads, c \in Customers, a \in Amounts : CallRecord(t, c, a)
    \/ \E t \in Threads, c \in Customers, a \in Amounts : CallAssess(t, c, a)
    \/ \E t \in Readers, c \in Customers : CallCalc(t, c, None)
    \/ \E t \in Threads : Body(t)
    \/ \E t \in Threads : Return(t)

Spec == Init /\ [][Next]_vars

(***************************************************************************)
(* SpecSeq: one thread makes the calls one after the other, with more      *)
(* amounts, clock values and query times.                                  *)
(***************************************************************************)
NextSeq ==
    \/ Tick(SeqInstants)
    \/ \E t \in SeqThreads, c \in Customers, a \in SeqAmounts : CallRecord(t, c, a)
    \/ \E t \in SeqThreads, c \in Customers, a \in SeqAmounts : CallAssess(t, c, a)
    \/ \E t \in SeqThreads, c \in Customers, q \in SeqQueryTimes \cup {None} : CallCalc(t, c, q)
    \/ \E t \in SeqThreads, c \in Customers : CallSummary(t, c)
    \/ \E t \in SeqThreads : Body(t)
    \/ \E t \in SeqThreads : CallAgain(t)
    \/ \E t \in SeqThreads : Return(t)

SpecSeq == Init /\ [][NextSeq]_vars

(***************************************************************************)
(* SpecFair: the threads only record, with amounts float() accepts and     *)
(* amounts it rejects.  The scheduler is fair: a thread that can take a    *)
(* step eventually takes one, and a thread that finds the lock free again  *)
(* and again eventually gets it.                                           *)
(***************************************************************************)
FairInstants == {604801}

NextFair ==
    \/ Tick(FairInstants)
    \/ \E t \in Threads, c \in Customers, a \in Amounts : CallRecord(t, c, a)
    \/ \E t \in Threads, c \in Customers : CallRecordGiven(t, c)
    \/ \E t \in Threads : RecordBody(t)
    \/ \E t \in Threads : Return(t)

Fairness ==
    \A t \in Threads :
        /\ WF_vars(RecordBody(t))
        /\ SF_vars(RecAcquire(t))
        /\ SF_vars(RecAcquireGiven(t))

SpecFair == Init /\ [][NextFair]_vars /\ Fairness

(***************************************************************************)
(* SpecScore: the scoring functions applied to bounded inputs.  Init draws *)
(* the ledger the assessed customer has before the run; every call is a    *)
(* run of its own from that ledger, and a second call repeats the first    *)
(* with another amount only, so that the two results can be compared.  The *)
(* AML checker keeps no state and never reads the ledger: its calls are    *)
(* explored from the empty ledger.                                         *)
(***************************************************************************)
\* time.time() of the assessment, and the timestamps of the prior records:
\* OldInstants lie within the last hour but not the last minute
AssessInstants == {4000}
OldInstants == {1000}
RecentInstants == {3950, 4000}
OldCounts == {0, 66, 101}
RecentCounts == {0, 4, 5, 9, 10, 20}
OldAmounts == {100}
RecentAmounts == {100, 30000}
\* transaction_amount of the assessed transaction
ScoreAmounts == {0, 100, 50000, 60000, 75000, 200000}
\* datetime.now().hour as read by _calculate_pattern_risk and then by
\* _generate_velocity_flags: the same hour, or the next one
HourPairs == {<<3, 3>>, <<12, 12>>, <<5, 6>>, <<22, 23>>}

\* n records made at one instant with one amount
Run(n, ts, amt) == [i \in 1 .. n |-> [ts |-> ts, amt |-> amt]]

PriorLedgers ==
    {Run(o, ot, oa) \o Run(r, rt, ra) :
        o \in OldCounts, ot \in OldInstants, oa \in OldAmounts,
        r \in RecentCounts, rt \in RecentInstants, ra \in RecentAmounts}

\* the deques of a ledger, as record_transaction fills them
TimestampsOf(l) == [i \in 1 .. Len(l) |-> [id |-> i, v |-> l[i].ts]]
AmountsOf(l) == [i \in 1 .. Len(l) |-> [id |-> i, v |-> l[i].amt]]

\* assess_velocity_risk (lines 181-188) run without interruption at one
\* clock value: the transaction is recorded, then the metrics are computed
MetricsAfterRecord(prior, transaction_amount, now) ==
    LET l == Append(prior, [ts |-> now, amt |-> transaction_amount])
    IN VelocityMetrics(TimestampsOf(l), AmountsOf(l), now)

\* a field of transaction_data as the caller gives it: a number, no entry
\* under the key, None, or text that is no number
Number(v) == [kind |-> "number", v |-> v]
Absent == [kind |-> "absent", v |-> 0]
Null == [kind |-> "null", v |-> 0]
Text == [kind |-> "text", v |-> 0]

\* transaction_data.get(key, default)
FieldGet(value, default) == IF value.kind = "absent" THEN Number(default) ELSE value

\* float(x): None raises TypeError, text that is no number raises ValueError
Float(x) ==
    CASE x.kind = "number" -> [raised |-> "none", v |-> x.v]
      [] x.kind = "null" -> [raised |-> "TypeError", v |-> 0]
      [] OTHER -> [raised |-> "ValueError", v |-> 0]

\* x < n, n <= x and the like for a number n: None and text raise TypeError
Compared(x) ==
    IF x.kind = "number" THEN [raised |-> "none", v |-> x.v]
    ELSE [raised |-> "TypeError", v |-> 0]

\* a call that an exception ended
Raised(fn, given, exception) ==
    [fn |-> fn, given |-> given, args |-> <<>>, out |-> <<>>, raised |-> exception]

\* the call and what it returns, m being the metrics it computed
VelocityCall(a, now, hours, m) ==
    [fn |-> "assess_velocity_risk",
     given |-> [transaction_amount |-> Number(a)],
     args |-> [transaction_amount |-> a, now |-> now, hours |-> hours],
     out |-> VelocityAssessment(m, a, hours),
     raised |-> "none"]

\* amounts that are not numbers
GivenAmounts == {Absent, Null, Text}

\* assess_velocity_risk with such an amount: record_transaction converts it
\* on line 86, before it touches the buffer
AssessVelocityGiven ==
    /\ calls = <<>>
    /\ \E g \in GivenAmounts, now \in AssessInstants, hours \in HourPairs :
          \E amount \in {Float(FieldGet(g, 0))} :
              IF amount.raised # "none"
              THEN calls' = <<Raised("assess_velocity_risk", [transaction_amount |-> g],
                                     amount.raised)>>
              ELSE \E m \in {MetricsAfterRecord(ledger0, amount.v, now)} :
                      calls' = <<[VelocityCall(amount.v, now, hours, m)
                                     EXCEPT !.given = [transaction_amount |-> g]]>>
    /\ UNCHANGED <<ledger0, monitor_vars>>

AssessVelocity ==
    /\ calls = <<>>
    /\ \E a \in ScoreAmounts, now \in AssessInstants, hours \in HourPairs :
          \E m \in {MetricsAfterRecord(ledger0, a, now)} :
              calls' = <<VelocityCall(a, now, hours, m)>>
    /\ UNCHANGED <<ledger0, monitor_vars>>

\* the same assessment from the same ledger, with another amount
AssessVelocityOther ==
    /\ Len(calls) = 1
    /\ calls[1].fn = "assess_velocity_risk"
    /\ calls[1].raised = "none"
    /\ \E a \in ScoreAmounts \ {calls[1].args.transaction_amount} :
          \E m \in {MetricsAfterRecord(ledger0, a, calls[1].args.now)} :
              calls' = Append(calls, VelocityCall(a, calls[1].args.now, calls[1].args.hours, m))
    /\ UNCHANGED <<ledger0, monitor_vars>>

\* inputs of the AML checker
AmlInstants == {100000}
AmlAmounts == {0, 5000, 5001, 7777, 9900, 50001, 51000, 55555}
AmlHours == {2, 14}
CustomerNames == {<<"Regular", "Customer">>, <<"sanctioned_entity_1">>, <<"Mr", "SANCTIONED_ENTITY_1">>}
MerchantNames == {<<"Normal", "Store">>, <<"BLOCKED_COUNTRY_CODE", "store">>}
Locations == {<<"DOMESTIC">>, <<"OFFSHORE">>, <<"blocked_country_code">>}
MerchantCategories == {"RETAIL", "GAMBLING"}
\* a timestamp of a history entry: a datetime value, an ISO-8601 string, an
\* ISO-8601 string with a trailing Z, other text, or None; `at` is the instant
\* it denotes, in seconds
Timestamp(form, at) == [form |-> form, at |-> at]

\* entries one hour old in every form, an entry more than 24 hours old, and
\* entries without a usable timestamp
HistoryEntries ==
    {[transaction_amount |-> 3000, timestamp |-> Timestamp("datetime", 96400)],
     [transaction_amount |-> 1000, timestamp |-> Timestamp("iso", 96400)],
     [transaction_amount |-> 3000, timestamp |-> Timestamp("iso_z", 96400)],
     [transaction_amount |-> 3000, timestamp |-> Timestamp("datetime", 10000)],
     [transaction_amount |-> 3000, timestamp |-> Timestamp("text", 0)],
     [transaction_amount |-> 3000, timestamp |-> Timestamp("none", 0)]}
HistoryLengths == {0, 5}
\* transaction_history
Histories == {[i \in 1 .. n |-> e] : n \in HistoryLengths, e \in HistoryEntries}
\* account_history
AccountHistories ==
    {h \in Histories : \A i \in 1 .. Len(h) : h[i].timestamp.form \in {"datetime", "none"}
                                             /\ h[i].timestamp.at # 10000}

Transactions ==
    [transaction_amount : AmlAmounts, transaction_hour : AmlHours,
     customer_name : CustomerNames, merchant_name : MerchantNames,
     location : Locations, merchant_category : MerchantCategories]

AmlCall(txn, th, ah, now) ==
    [fn |-> "calculate_overall_aml_risk",
     given |-> [transaction_amount |-> Number(txn.transaction_amount),
                transaction_hour |-> Number(txn.transaction_hour)],
     args |-> [txn |-> txn, transaction_history |-> th, account_history |-> ah, now |-> now],
     out |-> CalculateOverallAmlRisk(txn, th, ah, now),
     raised |-> "none"]

AssessAml ==
    /\ ledger0 = <<>>
    /\ calls = <<>>
    /\ \E txn \in Transactions, th \in Histories, ah \in AccountHistories, now \in AmlInstants :
          calls' = <<AmlCall(txn, th, ah, now)>>
    /\ UNCHANGED <<ledger0, monitor_vars>>

\* the same check with the same histories, with another amount
AssessAmlOther ==
    /\ Len(calls) = 1
    /\ calls[1].fn = "calculate_overall_aml_risk"
    /\ calls[1].raised = "none"
    /\ \E a \in AmlAmounts \ {calls[1].args.txn.transaction_amount} :
          calls' = Append(calls, AmlCall([calls[1].args.txn EXCEPT !.transaction_amount = a],
                                         calls[1].args.transaction_history,
                                         calls[1].args.account_history, calls[1].args.now))
    /\ UNCHANGED <<ledger0, monitor_vars>>

\* amount and hour as given, at least one of them not a number
GivenFields ==
    {g \in [transaction_amount : GivenAmounts \cup {Number(5001)},
            transaction_hour : {Number(14), Absent, Null, Text}] :
        g.transaction_amount.kind # "number" \/ g.transaction_hour.kind # "number"}

\* calculate_overall_aml_risk of test_overall_aml_risk_calculation's
\* transaction with such fields and no history: check_structuring compares
\* the amount on line 72, check_suspicious_patterns the hour on line 143
AssessAmlGiven ==
    /\ ledger0 = <<>>
    /\ calls = <<>>
    /\ \E g \in GivenFields, now \in AmlInstants :
          LET amount == Compared(FieldGet(g.transaction_amount, 0))
              hour == Compared(FieldGet(g.transaction_hour, 12))
              txn == [transaction_amount |-> amount.v, transaction_hour |-> hour.v,
                      customer_name |-> <<"Regular", "Customer">>,
                      merchant_name |-> <<"Normal", "Store">>,
                      location |-> <<"DOMESTIC">>, merchant_category |-> "RETAIL"]
          IN IF amount.raised # "none"
             THEN calls' = <<Raised("calculate_overall_aml_risk", g, amount.raised)>>
             ELSE IF hour.raised # "none"
             THEN calls' = <<Raised("calculate_overall_aml_risk", g, hour.raised)>>
             ELSE calls' = <<[AmlCall(txn, <<>>, <<>>, now) EXCEPT !.given = g]>>
    /\ UNCHANGED <<ledger0, monitor_vars>>

\* what config_path names: nothing (None), no file, a file that cannot be
\* opened for reading, a file that is not JSON, a JSON object
ConfigPaths == {"None", "missing", "unreadable", "malformed", "valid"}

\* the JSON object of a valid file: it sets one key
CustomConfig == [time_windows |-> [minute |-> 30]]

\* default_config of the two _load_config methods
DefaultConfig(engine) ==
    IF engine = "VelocityMonitor"
    THEN [velocity_thresholds |-> velocity_thresholds, time_windows |-> time_windows,
          risk_weights |-> risk_weights]
    ELSE [risk_thresholds |-> risk_thresholds, time_windows |-> aml_time_windows,
          sanctions_list |-> sanctions_list]

\* default_config.update(custom_config)
Update(default_config, custom_config) ==
    [k \in DOMAIN default_config \cup DOMAIN custom_config |->
        IF k \in DOMAIN custom_config THEN custom_config[k] ELSE default_config[k]]

\* open(config_path, 'r') and json.load(f)
OpenAndLoad(config_path) ==
    CASE config_path = "missing" -> [raised |-> "FileNotFoundError", value |-> <<>>]
      [] config_path = "unreadable" -> [raised |-> "PermissionError", value |-> <<>>]
      [] config_path = "malformed" -> [raised |-> "JSONDecodeError", value |-> <<>>]
      [] OTHER -> [raised |-> "none", value |-> CustomConfig]

LoadConfigCatchingAll(engine, config_path) ==
    LET f == OpenAndLoad(config_path)
    IN IF config_path = "None" \/ f.raised # "none"
       THEN [raised |-> "none", value |-> DefaultConfig(engine)]
       ELSE [raised |-> "none", value |-> Update(DefaultConfig(engine), f.value)]
\* _load_config of both classes: `except FileNotFoundError: pass`, every
\* other exception leaves the method
LoadConfig(engine, config_path) ==
    LET f == OpenAndLoad(config_path)
    IN IF config_path = "None" \/ f.raised = "FileNotFoundError"
       THEN [raised |-> "none", value |-> DefaultConfig(engine)]
       ELSE IF f.raised # "none"
       THEN [raised |-> f.raised, value |-> <<>>]
       ELSE [raised |-> "none", value |-> Update(DefaultConfig(engine), f.value)]

\* VelocityMonitor(config_path) / AMLComplianceChecker(config_path):
\* self.config = self._load_config(config_path) is the first statement
Construct ==
    /\ ledger0 = <<>>
    /\ calls = <<>>
    /\ \E engine \in {"VelocityMonitor", "AMLComplianceChecker"}, config_path \in ConfigPaths :
          \E c \in {LoadConfig(engine, config_path)} :
              calls' = <<[fn |-> engine, given |-> <<>>, args |-> [config_path |-> config_path],
                          out |-> c.value, raised |-> c.raised]>>
    /\ UNCHANGED <<ledger0, monitor_vars>>

\* RiskAggregator (spec section 4.4): the weights of the blend
combine_weights == [base |-> Frac(5, 10), aml |-> Frac(3, 10), velocity |-> Frac(2, 10)]

\* combinedScore = baseFraud*0.5 + amlScore*0.3 + velocityScore*0.2
CombinedScore(base, aml, velocity) ==
    FAdd(FMul(base, combine_weights.base),
         FAdd(FMul(aml.aml_overall_risk_score, combine_weights.aml),
              FMul(velocity.velocity_risk_score, combine_weights.velocity)))

RiskLevels == {"MINIMAL", "LOW", "MEDIUM", "HIGH"}

EscalatesOnReviewOnly(aml, velocity) ==
    aml.requires_manual_review \/ velocity.requires_velocity_review
\* either sub-engine reports requiresManualReview or a HIGH risk level
Escalates(aml, velocity) ==
    \/ aml.requires_manual_review
    \/ velocity.requires_velocity_review
    \/ aml.aml_risk_level = "HIGH"
    \/ velocity.velocity_risk_level = "HIGH"

\* the assessments combine may return: escalation forces riskLevel HIGH and
\* isFraud true; otherwise the level and the verdict follow the numeric
\* blend by cut-points that section 4.4 leaves open
Combine(base, aml, velocity) ==
    {[combinedScore |-> CombinedScore(base, aml, velocity), riskLevel |-> level,
      isFraud |-> fraud] :
        level \in IF Escalates(aml, velocity) THEN {"HIGH"} ELSE RiskLevels,
        fraud \in IF Escalates(aml, velocity) THEN {TRUE} ELSE BOOLEAN}

\* the base fraud probability supplied from outside
BaseFrauds == {Zero, Frac(9, 10)}

\* the sub-engine a call did not run, on the same amount: the AML check of an
\* ordinary transaction without history, the velocity assessment of a
\* customer without history
OrdinaryAml(amount) ==
    CalculateOverallAmlRisk(
        [transaction_amount |-> amount, transaction_hour |-> 14,
         customer_name |-> <<"Regular", "Customer">>, merchant_name |-> <<"Normal", "Store">>,
         location |-> <<"DOMESTIC">>, merchant_category |-> "RETAIL"], <<>>, <<>>, 0)
OrdinaryVelocity(amount) ==
    VelocityAssessment(MetricsAfterRecord(<<>>, amount, 0), amount, <<14, 14>>)

\* combine(baseFraudProbability, amlResult, velocityResult) on the result of
\* the call just made and the other sub-engine's result for the same amount
Aggregate ==
    /\ Len(calls) = 1
    /\ calls[1].raised = "none"
    /\ calls[1].fn \in {"assess_velocity_risk", "calculate_overall_aml_risk"}
    /\ \E base \in BaseFrauds :
          \E aml \in {IF calls[1].fn = "calculate_overall_aml_risk" THEN calls[1].out
                       ELSE OrdinaryAml(calls[1].args.transaction_amount)} :
          \E velocity \in {IF calls[1].fn = "assess_velocity_risk" THEN calls[1].out
                            ELSE OrdinaryVelocity(calls[1].args.txn.transaction_amount)} :
          \E assessment \in Combine(base, aml, velocity) :
              calls' = Append(calls, [fn |-> "combine", given |-> <<>>,
                                      args |-> [base |-> base, aml |-> aml, velocity |-> velocity],
                                      out |-> assessment, raised |-> "none"])
    /\ UNCHANGED <<ledger0, monitor_vars>>

InitScore ==
    /\ clock = 0
    /\ transaction_buffer = <<>>
    /\ heap = [o \in Objs |-> EmptyBuffer]
    /\ lock = "free"
    /\ last_cleanup = 0
    /\ pc = [t \in Threads |-> "idle"]
    /\ loc = [t \in Threads |-> IdleLoc]
    /\ log = <<>>
    /\ ledger0 \in PriorLedgers
    /\ calls = <<>>

NextScore ==
    \/ AssessVelocity
    \/ AssessVelocityOther
    \/ AssessAml
    \/ AssessAmlOther
    \/ AssessVelocityGiven
    \/ AssessAmlGiven
    \/ Construct
    \/ Aggregate

SpecScore == InitScore /\ [][NextScore]_vars

\* the calls made so far, by engine
\* the calls that returned, by engine
Returned == {i \in 1 .. Len(calls) : calls[i].raised = "none"}
VelocityCalls == {i \in Returned : calls[i].fn = "assess_velocity_risk"}
AmlCalls == {i \in Returned : calls[i].fn = "calculate_overall_aml_risk"}

(***************************************************************************)
(* Views of the state used by the properties.                              *)
(***************************************************************************)
\* the buffer stored for customer c; three empty deques when c has no key
Ledger(c) ==
    IF Has(transaction_buffer, c) THEN heap[Get(transaction_buffer, c)] ELSE EmptyBuffer

Range(d) == {d[i] : i \in 1 .. Len(d)}

\* thread t has finished a window query (directly or inside an assessment)
QueryDone(t) ==
    pc[t] = "ret" /\ loc[t].op \in {"calc", "summary", "assess"} /\ ~loc[t].exc

\* the zip pairs that entered window w of t's result
Used(t, w) == Range(loc[t].res.metrics[w].used)

\* thread t is inside _cleanup_old_transactions
InCleanup(t) ==
    pc[t] \in {"cl_for", "cl_while", "cl_pop_tx", "cl_pop_amt", "cl_pop_ts", "cl_if_empty", "cl_done"}

\* number of record_transaction calls made for customer c that took effect
Calls(c) == Cardinality({i \in 1 .. Len(log) : log[i].cust = c})

(***************************************************************************)
(* C1.  A window query that runs concurrently with record_transaction or   *)
(* with eviction sees a consistent snapshot: every timestamp it uses is    *)
(* paired with the amount that was recorded together with it.              *)
(* Refuted: the query copies the two deques in two steps without the lock, *)
(* and an eviction between the copies shifts one against the other.        *)
(***************************************************************************)
C1_ConsistentSnapshot ==
    \A t \in Threads : QueryDone(t) =>
        \A w \in WindowNames : \A p \in Used(t, w) : p.t.id = p.a.id

(***************************************************************************)
(* C2.  assess_velocity_risk is atomic per customer: the metrics it        *)
(* returns count exactly the ledger entries that were present right after  *)
(* its own append (those of them that lie in the window).                  *)
(* Refuted: the lock is released between the append and the query.         *)
(***************************************************************************)
C2_AssessAtomic ==
    \A t \in Threads : QueryDone(t) /\ loc[t].op = "assess" =>
        \A w \in WindowNames :
            {p.t.id : p \in Used(t, w)} =
                {i \in loc[t].snap : log[i].ts >= loc[t].q - time_windows[w]}

(***************************************************************************)
(* C3.  No update is lost: when all record_transaction calls have returned *)
(* and no entry is old enough to be evicted, each customer's ledger holds  *)
(* exactly as many entries as calls were made for that customer.           *)
(***************************************************************************)
AllReturned == \A t \in Threads : pc[t] = "idle"

NoneEvictable == \A i \in 1 .. Len(log) : clock - log[i].ts <= max_window

C3_NoLostUpdate ==
    AllReturned /\ NoneEvictable =>
        \A c \in Customers :
            /\ Len(Ledger(c).transactions) = Calls(c)
            /\ Len(Ledger(c).amounts) = Calls(c)
            /\ Len(Ledger(c).timestamps) = Calls(c)

\* all the calls the bound allows were made for one customer and have returned
C3_Witness ==
    /\ AllReturned /\ NoneEvictable
    /\ \E c \in Customers : Calls(c) = MaxRecords /\ Len(Ledger(c).timestamps) = MaxRecords

(***************************************************************************)
(* C4.  A record_transaction call for one customer never waits for the     *)
(* lock while it is held by a call (or its eviction pass) that works for   *)
(* a different customer.                                                   *)
(* Refuted: self._lock is one lock for all customers.                      *)
(***************************************************************************)
C4_NoCrossCustomerBlocking ==
    \A t \in Threads :
        pc[t] = "rec_lock" /\ lock # "free" =>
            /\ loc[lock].cust = loc[t].cust
            /\ InCleanup(lock) /\ pc[lock] # "cl_for" /\ pc[lock] # "cl_done" =>
                   loc[lock].ccust = loc[t].cust

(***************************************************************************)
(* C5.  With calls made one after the other, a window query returns, for   *)
(* every window: as count the number of ledger entries with timestamp      *)
(* >= now - window (boundary included), as total_amount the sum of their   *)
(* amounts, as max_amount the largest of them, as avg_amount total/count   *)
(* (0 when the count is 0).                                                *)
(***************************************************************************)
\* positions of the ledger entries of customer c that lie in the window
InWindow(c, now, seconds) ==
    {i \in 1 .. Len(Ledger(c).timestamps) : Ledger(c).timestamps[i].v >= now - seconds}

RECURSIVE AmountSum(_, _)
AmountSum(c, S) ==
    IF S = {} THEN 0
    ELSE LET i == CHOOSE j \in S : TRUE
         IN Ledger(c).amounts[i].v + AmountSum(c, S \ {i})

AmountMax(c, S) ==
    IF S = {} THEN 0
    ELSE CHOOSE m \in {Ledger(c).amounts[i].v : i \in S} :
            \A i \in S : Ledger(c).amounts[i].v <= m

C5_WindowMetrics ==
    \A t \in Threads : QueryDone(t) =>
        \A w \in WindowNames :
            LET S == InWindow(loc[t].cust, loc[t].q, time_windows[w])
                m == loc[t].res.metrics[w]
            IN /\ m.count = Cardinality(S)
               /\ m.total_amount = AmountSum(loc[t].cust, S)
               /\ m.max_amount = AmountMax(loc[t].cust, S)
               /\ m.avg_amount[1] * Cardinality(S) = AmountSum(loc[t].cust, S) * m.avg_amount[2]
               /\ Cardinality(S) = 0 => m.avg_amount[1] = 0

\* a query whose minute window holds two entries of different amounts, one of
\* them exactly on the boundary, while an older entry of the ledger is left out
C5_Witness ==
    \E t \in Threads :
        /\ QueryDone(t) /\ loc[t].op = "calc"
        /\ loc[t].res.metrics["minute_window"].count = 2
        /\ loc[t].res.metrics["minute_window"].total_amount = 40
        /\ Len(Ledger(loc[t].cust).timestamps) = 3
        /\ \E e \in Range(Ledger(loc[t].cust).timestamps) : e.v = loc[t].q - 60

(***************************************************************************)
(* C6.  As claimed: in every reachable state every retained entry has a    *)
(* timestamp no older than the current time minus the longest window       *)
(* (stated for the states in which no call is in progress).                *)
(* Refuted: eviction is lazy, so time alone makes a retained entry older.  *)
(***************************************************************************)
StoredTimestamps == UNION {Range(Ledger(c).timestamps) : c \in Customers}

C6_AlwaysWithinWindow ==
    AllReturned =>
        \A e \in StoredTimestamps : e.v >= clock - time_windows.week_window

(***************************************************************************)
(* C6, amended.  When an eviction pass has gone through all customers,     *)
(* every retained entry of every customer has a timestamp no older than    *)
(* the time the pass read minus the longest window.                        *)
(***************************************************************************)
C6_WithinWindowAfterPass ==
    \A t \in Threads : pc[t] = "cl_done" =>
        \A e \in StoredTimestamps : e.v >= loc[t].ctime - time_windows.week_window

\* a pass has ended that removed an entry and kept one that lies on the cutoff
C6_Witness ==
    \E t \in Threads :
        /\ pc[t] = "cl_done"
        /\ \E e \in StoredTimestamps : e.v = loc[t].ctime - time_windows.week_window
        /\ \E i \in 1 .. Len(log) : log[i].ts < loc[t].ctime - time_windows.week_window

(***************************************************************************)
(* C7.  Once the query time is past the longest window since a transaction *)
(* was recorded, neither its timestamp nor its amount enters any window of *)
(* the result, whether or not an eviction pass has run; and when an        *)
(* eviction pass at such a time has ended, the entry is gone and no        *)
(* customer with an empty buffer has a key in the store.                   *)
(***************************************************************************)
Expired(i, now) == now - log[i].ts > max_window

C7_EvictionCorrect ==
    /\ \A t \in Threads : QueryDone(t) =>
          \A w \in WindowNames : \A p \in Used(t, w) :
              ~Expired(p.t.id, loc[t].q) /\ ~Expired(p.a.id, loc[t].q)
    /\ \A t \in Threads : pc[t] = "cl_done" =>
          /\ \A c \in Customers :
                \A f \in {"transactions", "amounts", "timestamps"} :
                    \A e \in Range(Ledger(c)[f]) : ~Expired(e.id, loc[t].ctime)
          /\ \A i \in 1 .. Len(transaction_buffer) :
                heap[transaction_buffer[i].v].timestamps # <<>>

\* a query that copied an expired entry has finished, while a pass of another
\* thread has removed that entry and its customer's key
C7_Witness ==
    \E t \in Threads, u \in Threads :
        /\ QueryDone(t)
        /\ \E e \in Range(loc[t].tcopy) : Expired(e.id, loc[t].q)
        /\ pc[u] = "cl_done"
        /\ ~Has(transaction_buffer, loc[t].cust)

(***************************************************************************)
(* C8.  Entries are deleted on age only: whenever a step removes an entry  *)
(* (its transaction, its amount or its timestamp) from a customer's        *)
(* ledger, an eviction pass is running and the entry's timestamp is older  *)
(* than the pass's cutoff; every other entry stays, amount unchanged.      *)
(***************************************************************************)
C8_DeletedOnAgeOnly ==
    [][\/ (heap' = heap /\ transaction_buffer' = transaction_buffer)
       \/ \A c \in Customers : \A f \in {"transactions", "amounts", "timestamps"} :
             \A e \in Range(Ledger(c)[f]) :
                 e \notin Range(Ledger(c)[f])' =>
                     \E t \in Threads : InCleanup(t) /\ log[e.id].ts < loc[t].cutoff]_vars

\* a pass has ended that removed another customer's entry of amount 10 and
\* kept an entry of amount 30 that lies on the cutoff
C8_Witness ==
    \E t \in Threads :
        /\ pc[t] = "cl_done"
        /\ \E c \in Customers : \E i \in 1 .. Len(Ledger(c).timestamps) :
              Ledger(c).timestamps[i].v = loc[t].cutoff /\ Ledger(c).amounts[i].v = 30
        /\ \E i \in 1 .. Len(log) :
              log[i].ts < loc[t].cutoff /\ log[i].cust # loc[t].cust /\ log[i].amt = 10

(***************************************************************************)
(* C9.  Each customer's ledger is monotonic: its entries are held in the   *)
(* order in which their record calls took effect, and their timestamps     *)
(* are non-decreasing from oldest to newest.                               *)
(***************************************************************************)
C9_MonotonicLedger ==
    \A c \in Customers :
        /\ \A f \in {"transactions", "amounts", "timestamps"} :
              \A i, j \in 1 .. Len(Ledger(c)[f]) :
                  i < j => Ledger(c)[f][i].id < Ledger(c)[f][j].id
        /\ \A i, j \in 1 .. Len(Ledger(c).timestamps) :
              i < j => Ledger(c).timestamps[i].v <= Ledger(c).timestamps[j].v

\* a ledger that holds entries recorded at different times, after an eviction
C9_Witness ==
    \E c \in Customers :
        /\ Len(Ledger(c).timestamps) = 2
        /\ Ledger(c).timestamps[1].v < Ledger(c).timestamps[2].v
        /\ Len(Ledger(c).amounts) = 2
        /\ Calls(c) = 3
        /\ AllReturned

(***************************************************************************)
(* C10.  Reads are pure: no step of calculate_velocity_metrics or of       *)
(* get_customer_velocity_summary changes the store (no entry added or      *)
(* removed, no key created), and a call repeated at the same query time    *)
(* with no record_transaction in between returns the same result.          *)
(***************************************************************************)
InQuery(t) ==
    pc[t] \in {"calc_time", "calc_get", "calc_ts", "calc_am", "calc_body"}
        \/ (pc[t] = "ret" /\ loc[t].op \in {"calc", "summary"})

C10_ReadsArePure ==
    [][\A t \in Threads : InQuery(t) =>
          /\ transaction_buffer' = transaction_buffer
          /\ \A c \in Customers : Ledger(c)' = Ledger(c)
          /\ (pc'[t] = "ret" /\ loc'[t].first # <<>> /\ loc'[t].first.q = loc'[t].q)
                => loc'[t].res = loc'[t].first.res]_vars

\* a repeated query at the same time over a ledger that is not empty
C10_Witness ==
    \E t \in Threads :
        /\ pc[t] = "ret" /\ loc[t].first # <<>> /\ loc[t].first.q = loc[t].q
        /\ loc[t].op = "calc"
        /\ loc[t].res.metrics["week_window"].count = 2
        /\ loc[t].res.metrics["minute_window"].count = 1

(***************************************************************************)
(* C11.  For every transaction with a non-negative amount and every ledger *)
(* state, the overall velocity score, the overall AML score and every      *)
(* component score (frequency, volume, pattern, structuring,               *)
(* rapid_movement, suspicious_patterns, sanctions) lie in [0, 1].          *)
(***************************************************************************)
InUnit(x) == FLe(Zero, x) /\ FLe(x, One)

C11_ScoresInUnitInterval ==
    /\ \A i \in VelocityCalls :
          calls[i].args.transaction_amount >= 0 =>
          /\ InUnit(calls[i].out.velocity_risk_score)
          /\ InUnit(calls[i].out.velocity_component_scores.frequency_risk)
          /\ InUnit(calls[i].out.velocity_component_scores.volume_risk)
          /\ InUnit(calls[i].out.velocity_component_scores.pattern_risk)
    /\ \A i \in AmlCalls :
          calls[i].args.txn.transaction_amount >= 0 =>
          /\ InUnit(calls[i].out.aml_overall_risk_score)
          /\ InUnit(calls[i].out.aml_component_scores.structuring)
          /\ InUnit(calls[i].out.aml_component_scores.rapid_movement)
          /\ InUnit(calls[i].out.aml_component_scores.suspicious_patterns)
          /\ InUnit(calls[i].out.aml_component_scores.sanctions)

\* an assessment whose three components, and so its overall score, are 1
C11_Witness ==
    \E i \in VelocityCalls :
        /\ calls[i].out.velocity_component_scores.frequency_risk = One
        /\ calls[i].out.velocity_component_scores.volume_risk = One
        /\ calls[i].out.velocity_component_scores.pattern_risk = One
        /\ calls[i].out.velocity_risk_score = One

(***************************************************************************)
(* C12.  For every combination of minute, hour and day transaction counts, *)
(* including counts at or below the configured maximum of their window,    *)
(* the frequency risk equals the maximum over those windows of             *)
(* min(count / maxCountForWindow, 2.0) / 2.0.                              *)
(***************************************************************************)
\* the maximum over the windows of min(count / max, 2.0) / 2.0
FrequencyFormula(m) ==
    FMax(FMax(Scaled(m["minute_window"].count, velocity_thresholds.max_transactions_per_minute),
              Scaled(m["hour_window"].count, velocity_thresholds.max_transactions_per_hour)),
         Scaled(m["day_window"].count, velocity_thresholds.max_transactions_per_day))

C12_FrequencyRiskIsFormula ==
    \A i \in VelocityCalls :
        calls[i].out.velocity_component_scores.frequency_risk
            = Round4(FrequencyFormula(calls[i].out.velocity_metrics))

(***************************************************************************)
(* C13.  Whenever the number of a customer's transactions in the last      *)
(* minute is strictly greater than max_transactions_per_minute, the        *)
(* assessment contains the flag HIGH_FREQUENCY_MINUTE and its frequency    *)
(* component is greater than 0.5; when the count is not greater than the   *)
(* maximum, the flag is absent.                                            *)
(***************************************************************************)
\* the customer's transactions of the last minute at call i, counted on the
\* ledger: the earlier ones and the one being assessed
LastMinuteCount(i) ==
    1 + Cardinality({k \in 1 .. Len(ledger0) :
                        ledger0[k].ts >= calls[i].args.now - time_windows.minute_window})

C13_HighFrequencyMinute ==
    \A i \in VelocityCalls :
        IF LastMinuteCount(i) > velocity_thresholds.max_transactions_per_minute
        THEN /\ In("HIGH_FREQUENCY_MINUTE", calls[i].out.velocity_flags)
             /\ FLt(Frac(5, 10), calls[i].out.velocity_component_scores.frequency_risk)
        ELSE ~In("HIGH_FREQUENCY_MINUTE", calls[i].out.velocity_flags)

\* eleven transactions in the last minute, and no other window over its limit
C13_Witness ==
    \E i \in VelocityCalls :
        /\ LastMinuteCount(i) = 11
        /\ In("HIGH_FREQUENCY_MINUTE", calls[i].out.velocity_flags)
        /\ ~In("HIGH_FREQUENCY_HOUR", calls[i].out.velocity_flags)
        /\ calls[i].out.velocity_component_scores.frequency_risk = Frac(55, 100)

(***************************************************************************)
(* C14.  Volume risk is monotone in the amount: for a fixed prior ledger   *)
(* of a customer, assessing a transaction with a larger amount never       *)
(* yields a smaller volume_risk than assessing one with a smaller amount.  *)
(***************************************************************************)
C14_VolumeRiskMonotone ==
    \A i, j \in VelocityCalls :
        calls[i].args.transaction_amount <= calls[j].args.transaction_amount
            => FLe(calls[i].out.velocity_component_scores.volume_risk,
                   calls[j].out.velocity_component_scores.volume_risk)

\* two assessments from one ledger that is not empty: the smaller amount
\* already scores, the larger one scores more
C14_Witness ==
    \E i, j \in VelocityCalls :
        /\ ledger0 # <<>>
        /\ calls[i].args.transaction_amount < calls[j].args.transaction_amount
        /\ FLt(Zero, calls[i].out.velocity_component_scores.volume_risk)
        /\ FLt(calls[i].out.velocity_component_scores.volume_risk,
               calls[j].out.velocity_component_scores.volume_risk)

(***************************************************************************)
(* C15.  Rapid-movement risk is monotone in the amount: for two            *)
(* transactions that differ only in amount and the same account history,   *)
(* check_rapid_movement never returns a smaller rapid_movement_risk_score  *)
(* for the larger amount.                                                  *)
(***************************************************************************)
C15_RapidMovementMonotone ==
    \A i, j \in AmlCalls :
        calls[i].args.txn.transaction_amount <= calls[j].args.txn.transaction_amount
            => FLe(calls[i].out.rapid_movement_result.rapid_movement_risk_score,
                   calls[j].out.rapid_movement_result.rapid_movement_risk_score)

(***************************************************************************)
(* C16.  Burst detection: every assessment made while the customer has at  *)
(* least 6 transactions in the last minute contains the flag BURST_PATTERN *)
(* and has a pattern risk greater than 0, whatever the customer's count in *)
(* the last hour.                                                          *)
(***************************************************************************)
C16_BurstDetected ==
    \A i \in VelocityCalls :
        LastMinuteCount(i) >= 6 =>
            /\ In("BURST_PATTERN", calls[i].out.velocity_flags)
            /\ FLt(Zero, calls[i].out.velocity_component_scores.pattern_risk)

(***************************************************************************)
(* C17.  The flag RAPID_FIRE_TRANSACTIONS is emitted only when the         *)
(* transaction rate in the minute window exceeds 0.5 transactions per      *)
(* second; in particular an assessment whose minute window holds only the  *)
(* current transaction does not carry the flag.                            *)
(***************************************************************************)
C17_RapidFireOnlyAboveRate ==
    \A i \in VelocityCalls :
        /\ In("RAPID_FIRE_TRANSACTIONS", calls[i].out.velocity_flags)
              => FLt(Frac(5, 10), calls[i].out.velocity_metrics["minute_window"].rate)
        /\ LastMinuteCount(i) = 1
              => ~In("RAPID_FIRE_TRANSACTIONS", calls[i].out.velocity_flags)

(***************************************************************************)
(* C18.  A velocity assessment for a customer ID that was never seen       *)
(* before returns all-zero velocity metrics and the level MINIMAL and      *)
(* raises no error, for every transaction amount.                          *)
(***************************************************************************)
\* the assessments of a customer with no earlier record
FirstAssessments == {i \in VelocityCalls : ledger0 = <<>>}

AllZero(m) ==
    \A w \in WindowNames :
        /\ m[w].count = 0
        /\ m[w].total_amount = 0
        /\ m[w].avg_amount = Zero
        /\ m[w].max_amount = 0
        /\ m[w].rate = Zero

C18_NeverSeenAllZeroMinimal ==
    \A i \in FirstAssessments :
        /\ AllZero(calls[i].out.velocity_metrics)
        /\ calls[i].out.velocity_risk_level = "MINIMAL"

\* as amended: the assessment counts the assessed transaction itself, and
\* the level is MINIMAL exactly when the amount is below 1.5 times
\* max_amount_per_minute
C18_NeverSeenCountsItself ==
    \A i \in FirstAssessments :
        /\ \A w \in WindowNames :
              /\ calls[i].out.velocity_metrics[w].count = 1
              /\ calls[i].out.velocity_metrics[w].total_amount
                    = calls[i].args.transaction_amount
        /\ calls[i].out.velocity_risk_level = "MINIMAL"
              <=> 2 * calls[i].args.transaction_amount
                     < 3 * velocity_thresholds.max_amount_per_minute

\* first assessments on both sides of the boundary: 60000 is over the
\* minute maximum and still MINIMAL, 75000 is LOW
C18_Witness ==
    /\ FirstAssessments # {}
    /\ \E i, j \in FirstAssessments :
          /\ calls[i].args.transaction_amount = 60000
          /\ In("HIGH_VOLUME_MINUTE", calls[i].out.velocity_flags)
          /\ calls[i].out.velocity_risk_level = "MINIMAL"
          /\ calls[j].args.transaction_amount = 75000
          /\ calls[j].out.velocity_risk_level = "LOW"

(***************************************************************************)
(* C19.  Sanctions short-circuit: for every transaction whose customer     *)
(* name or merchant name contains a configured sanctioned-entity string    *)
(* (compared in upper case), whatever its amount and other fields, the     *)
(* sanctions component score is exactly 1.0, the flag SANCTIONS_MATCH is   *)
(* present and requires_manual_review is true; with no name match the      *)
(* sanctions score is 0.8 if the location contains a sanctions string and  *)
(* 0.0 otherwise.                                                          *)
(***************************************************************************)
\* the words of a string in capitals, spelled out for the names and
\* locations of the inputs
Capitals(s) ==
    [k \in 1 .. Len(s) |->
        CASE s[k] \in {"sanctioned_entity_1", "SANCTIONED_ENTITY_1"} -> "SANCTIONED_ENTITY_1"
          [] s[k] \in {"blocked_country_code", "BLOCKED_COUNTRY_CODE"} -> "BLOCKED_COUNTRY_CODE"
          [] OTHER -> "-"]

Sanctioned(s) ==
    \E k \in 1 .. Len(s) : Capitals(s)[k] \in {"SANCTIONED_ENTITY_1", "BLOCKED_COUNTRY_CODE"}

C19_SanctionsShortCircuit ==
    \A i \in AmlCalls :
        LET txn == calls[i].args.txn
            out == calls[i].out
        IN IF Sanctioned(txn.customer_name) \/ Sanctioned(txn.merchant_name)
           THEN /\ out.aml_component_scores.sanctions = One
                /\ out.sanctions_result.sanctions_risk_score = One
                /\ In("SANCTIONS_MATCH", out.aml_flags)
                /\ out.requires_manual_review
           ELSE /\ out.aml_component_scores.sanctions
                      = IF Sanctioned(txn.location) THEN Frac(8, 10) ELSE Zero
                /\ ~In("SANCTIONS_MATCH", out.aml_flags)

\* a name match written in lower case, on a small transaction that no other
\* rule flags: the overall score is only 0.25
C19_Witness ==
    \E i \in AmlCalls :
        /\ calls[i].args.txn.customer_name = <<"sanctioned_entity_1">>
        /\ calls[i].args.txn.transaction_amount = 0
        /\ calls[i].out.aml_flags = <<"SANCTIONS_MATCH">>
        /\ calls[i].out.aml_overall_risk_score = Frac(25, 100)
        /\ calls[i].out.requires_manual_review

(***************************************************************************)
(* C20.  In every AML result, requires_manual_review is true exactly when  *)
(* the overall AML score is at least 0.7 or a sanctions flag               *)
(* (SANCTIONS_MATCH or SANCTIONS_LOCATION) is present in aml_flags.        *)
(***************************************************************************)
C20_ManualReviewExactly ==
    \A i \in AmlCalls :
        calls[i].out.requires_manual_review
            <=> \/ FLe(Frac(7, 10), calls[i].out.aml_overall_risk_score)
                \/ In("SANCTIONS_MATCH", calls[i].out.aml_flags)
                \/ In("SANCTIONS_LOCATION", calls[i].out.aml_flags)

\* the calls of test_aml_risk_levels' high-risk case: amount 9900 at 2 o'clock,
\* GAMBLING, location OFFSHORE, no history
ScenarioCalls ==
    {i \in AmlCalls :
        /\ calls[i].args.txn.transaction_amount = 9900
        /\ calls[i].args.txn.transaction_hour = 2
        /\ calls[i].args.txn.merchant_category = "GAMBLING"
        /\ calls[i].args.txn.location = <<"OFFSHORE">>
        /\ calls[i].args.transaction_history = <<>>
        /\ calls[i].args.account_history = <<>>}

ScenarioFlags(i) ==
    /\ In("AMOUNT_NEAR_CTR_THRESHOLD", calls[i].out.aml_flags)
    /\ In("UNUSUAL_TIMING", calls[i].out.aml_flags)
    /\ In("HIGH_RISK_MERCHANT_CATEGORY", calls[i].out.aml_flags)
    /\ In("HIGH_RISK_LOCATION", calls[i].out.aml_flags)

\* C21 (as stated): in the scenario 9900 / hour 2 / GAMBLING / OFFSHORE with no
\* history the overall AML score is greater than 0.5 and the four flags
\* AMOUNT_NEAR_CTR_THRESHOLD, UNUSUAL_TIMING, HIGH_RISK_MERCHANT_CATEGORY and
\* HIGH_RISK_LOCATION are returned.
C21_ScenarioAboveHalf ==
    \A i \in ScenarioCalls :
        /\ FLt(Frac(5, 10), calls[i].out.aml_overall_risk_score)
        /\ ScenarioFlags(i)

\* C21 (amended): in that scenario the four flags are returned and the overall
\* AML score is greater than 0.35; when no name is on the sanctions list it is
\* 0.4*0.20 + 0.9*0.35 = 0.395, level MEDIUM.
C21_ScenarioMedium ==
    \A i \in ScenarioCalls :
        /\ ScenarioFlags(i)
        /\ FLt(Frac(35, 100), calls[i].out.aml_overall_risk_score)
        /\ ~NameMatch(calls[i].args.txn) =>
              /\ calls[i].out.aml_overall_risk_score = Frac(395, 1000)
              /\ calls[i].out.aml_risk_level = "MEDIUM"

C21_Witness ==
    \E i \in ScenarioCalls :
        /\ ~NameMatch(calls[i].args.txn)
        /\ calls[i].out.aml_risk_level = "MEDIUM"

\* the entries of a history whose timestamp, in an accepted form, lies within
\* the last `hours` hours before now
ValidRecent(history, hours, now) ==
    SelectSeq(history, LAMBDA t : /\ t.timestamp.form \in {"datetime", "iso", "iso_z"}
                                  /\ now - t.timestamp.at >= 0
                                  /\ now - t.timestamp.at <= hours * 3600)

\* the structuring score without and with the 0.6 of the history step
StructuringBase(txn) ==
    IF In("AMOUNT_NEAR_CTR_THRESHOLD", CheckStructuring(txn, <<>>, 0).structuring_flags)
    THEN Frac(4, 10) ELSE Zero

\* C22: the structuring check adds 0.6 and MULTIPLE_TRANSACTIONS_ABOVE_THRESHOLD
\* exactly when the history holds at least 3 entries timestamped within the
\* last 24 hours, as datetime, ISO-8601 string or ISO-8601 string with a
\* trailing Z, whose amounts plus the current amount exceed the CTR threshold;
\* entries outside the window or without a valid timestamp are not counted.
C22_StructuringCountsRecentHistory ==
    \A i \in AmlCalls :
        LET txn == calls[i].args.txn
            r == ValidRecent(calls[i].args.transaction_history,
                             aml_time_windows.structuring_window_hours, calls[i].args.now)
            due == /\ Len(r) >= 3
                   /\ SumAmounts(r) + txn.transaction_amount > risk_thresholds.structuring_threshold
        IN /\ due <=> In("MULTIPLE_TRANSACTIONS_ABOVE_THRESHOLD", calls[i].out.aml_flags)
           /\ calls[i].out.aml_component_scores.structuring =
                 IF due THEN FMin(FAdd(StructuringBase(txn), Frac(6, 10)), One)
                 ELSE StructuringBase(txn)

\* the calls whose amount or hour is absent, None or not a number
MalformedCalls ==
    {i \in 1 .. Len(calls) :
        \E f \in DOMAIN calls[i].given : calls[i].given[f].kind # "number"}

\* C23: a call whose amount or hour is absent, None or not a number does not
\* raise; the amount counts as 0, the hour as 12, and for a customer without
\* history the result is low-risk (MINIMAL).
C23_MalformedFieldsDefaulted ==
    \A i \in MalformedCalls :
        /\ calls[i].raised = "none"
        /\ calls[i].fn = "assess_velocity_risk" =>
              /\ calls[i].args.transaction_amount = 0
              /\ ledger0 = <<>> => calls[i].out.velocity_risk_level = "MINIMAL"
        /\ calls[i].fn = "calculate_overall_aml_risk" =>
              /\ calls[i].given.transaction_amount.kind # "number" =>
                    calls[i].args.txn.transaction_amount = 0
              /\ calls[i].given.transaction_hour.kind # "number" =>
                    calls[i].args.txn.transaction_hour = 12
              /\ calls[i].out.aml_risk_level = "MINIMAL"

\* the constructions made so far
Constructions == {i \in 1 .. Len(calls) : calls[i].fn \in {"VelocityMonitor", "AMLComplianceChecker"}}

\* C24 (as stated): constructing an engine with a config_path whose file is
\* missing or unreadable ends in an error.
C24_ConfigLoadFailureFatal ==
    \A i \in Constructions :
        calls[i].args.config_path \in {"missing", "unreadable"} => calls[i].raised # "none"

\* C24 (amended): constructing an engine with a config_path whose file cannot
\* be read or is not valid JSON ends in an error and yields no engine; a
\* missing file is not fatal, the engine is built with the default
\* configuration.
C24_OnlyMissingFileFallsBack ==
    \A i \in Constructions :
        /\ calls[i].args.config_path \in {"unreadable", "malformed"} =>
              calls[i].raised # "none" /\ calls[i].out = <<>>
        /\ calls[i].args.config_path = "missing" =>
              calls[i].raised = "none" /\ calls[i].out = DefaultConfig(calls[i].fn)

C24_Witness ==
    \E i \in Constructions :
        /\ calls[i].args.config_path = "missing"
        /\ calls[i].raised = "none"
        /\ calls[i].out.time_windows = time_windows

\* the aggregations made so far
Aggregations == {i \in 1 .. Len(calls) : calls[i].fn = "combine"}

\* C25: escalation dominance: whenever the AML result or the velocity result
\* reports that manual review is required, or reports the level HIGH, the
\* aggregated risk level is HIGH and isFraud is true, whatever the blended
\* score is.
C25_EscalationDominance ==
    \A i \in Aggregations :
        (\/ calls[i].args.aml.requires_manual_review
         \/ calls[i].args.velocity.requires_velocity_review
         \/ calls[i].args.aml.aml_risk_level = "HIGH"
         \/ calls[i].args.velocity.velocity_risk_level = "HIGH")
        => calls[i].out.riskLevel = "HIGH" /\ calls[i].out.isFraud

\* a sub-engine reports HIGH without requiring review, and the blend is below 0.5
C25_Witness ==
    \E i \in Aggregations :
        /\ ~calls[i].args.aml.requires_manual_review
        /\ ~calls[i].args.velocity.requires_velocity_review
        /\ calls[i].args.aml.aml_risk_level = "HIGH"
        /\ FLt(calls[i].out.combinedScore, Frac(5, 10))
        /\ calls[i].out.riskLevel = "HIGH"

\* the three sequences of customer c have one length, and position by
\* position they hold the transaction, the amount and the timestamp of one
\* record_transaction call
Aligned(c) ==
    LET b == Ledger(c)
    IN /\ Len(b.transactions) = Len(b.amounts)
       /\ Len(b.amounts) = Len(b.timestamps)
       /\ \A i \in 1 .. Len(b.timestamps) :
             /\ b.transactions[i].id = b.timestamps[i].id
             /\ b.amounts[i].id = b.timestamps[i].id
             /\ b.amounts[i].v = log[b.timestamps[i].id].amt
             /\ b.timestamps[i].v = log[b.timestamps[i].id].ts

\* C26 (as stated): in every reachable state and for every customer in the
\* store the three parallel sequences have the same length and the i-th
\* amount and the i-th timestamp belong to the same recorded transaction.
C26_ParallelSequencesAligned ==
    \A c \in Customers : Has(transaction_buffer, c) => Aligned(c)

\* C26 (amended): the same in every state in which no record_transaction call
\* holds the lock, that is before and after every record_transaction call and
\* every eviction pass.
C26_AlignedOutsideTheLock ==
    lock = "free" => \A c \in Customers : Has(transaction_buffer, c) => Aligned(c)

\* an eviction pass has removed an entry of a customer who keeps two others
C26_Witness ==
    /\ lock = "free"
    /\ \E c \in Customers :
          /\ Len(Ledger(c).timestamps) = 2
          /\ Calls(c) = 3
          /\ Aligned(c)

\* a pass runs only inside a record_transaction call that holds the lock and
\* whose time is more than 300 seconds after the previous pass
PassOnlyWhenDue ==
    \A t \in Threads :
        InCleanup(t) =>
            /\ lock = t
            /\ loc[t].op \in {"record", "assess"}
            /\ loc[t].now - last_cleanup > cleanup_interval

\* a record_transaction call whose time is more than 300 seconds after the
\* previous pass does not end without a pass, and consecutive passes belong
\* to calls more than 300 seconds apart
PassStep ==
    /\ \A t \in Threads :
          pc[t] = "rec_check" /\ CleanupDue(t) /\ pc'[t] # pc[t] => pc'[t] = "cl_for"
    /\ last_cleanup' # last_cleanup => last_cleanup' - last_cleanup > cleanup_interval

\* when the pass has gone through the customers, no entry older than the
\* longest window is left for any customer
PassRemovesAll ==
    \A t \in Threads :
        pc[t] = "cl_done" =>
            \A e \in StoredTimestamps : e.v >= loc[t].ctime - max_window

\* C27: eviction is rate-limited and piggy-backed on recording: a pass runs
\* only inside a record_transaction call made more than 300 seconds after the
\* previous pass (or after construction), two passes are more than 300
\* seconds apart, and the first record_transaction call made more than 300
\* seconds after the previous pass removes every entry older than the longest
\* window for every customer.
C27_EvictionRateLimited ==
    [](PassOnlyWhenDue /\ PassRemovesAll) /\ [][PassStep]_vars

\* a second pass, 604500 seconds after the first one, has removed an entry
C27_Witness ==
    \E t \in Threads :
        /\ pc[t] = "cl_done"
        /\ last_cleanup > 0
        /\ Cardinality(StoredTimestamps) < Len(log)

\* thread t is inside record_transaction
InRecord(t) ==
    \/ pc[t] \in {"rec_lock", "rec_lock_given", "rec_float", "rec_lookup", "rec_missing",
                  "rec_app_tx", "rec_app_amt", "rec_app_ts", "rec_check"}
    \/ InCleanup(t)

\* a thread that is not inside record_transaction does not hold the lock
ReleasedOutside == \A t \in Threads : ~InRecord(t) => lock # t

BurstAdded(i) ==
    LET m == calls[i].out.velocity_metrics
    IN /\ m["minute_window"].count > 0
       /\ m["hour_window"].count > 0
       /\ BurstRatioHigh(m["minute_window"].count, m["hour_window"].count)

\* C29: the burst flag and the burst score agree: in every velocity
\* assessment the flag BURST_PATTERN is present exactly when the burst
\* contribution of 0.3 has been added to the pattern risk.
C29_BurstFlagIffBurstScore ==
    \A i \in VelocityCalls :
        In("BURST_PATTERN", calls[i].out.velocity_flags) <=> BurstAdded(i)

\* the structuring check of call i has raised a flag
StructuringFlagged(i) ==
    \/ In("AMOUNT_NEAR_CTR_THRESHOLD", calls[i].out.aml_flags)
    \/ In("MULTIPLE_TRANSACTIONS_ABOVE_THRESHOLD", calls[i].out.aml_flags)

\* C30: whenever the structuring check raises a flag
\* (AMOUNT_NEAR_CTR_THRESHOLD or MULTIPLE_TRANSACTIONS_ABOVE_THRESHOLD), the
\* AML recommendations contain MONITOR_CUSTOMER_PATTERN and
\* REVIEW_TRANSACTION_HISTORY.
C30_StructuringRecommended ==
    \A i \in AmlCalls :
        StructuringFlagged(i) =>
            /\ In("MONITOR_CUSTOMER_PATTERN", calls[i].out.aml_recommendations)
            /\ In("REVIEW_TRANSACTION_HISTORY", calls[i].out.aml_recommendations)

====
